---- MODULE Spec2Model ----
(***************************************************************************)
(* Model of the Social Publish & Interaction Orchestrator of virtual-prism *)
(* (backend/app): the Instagram credential store, the APScheduler-backed   *)
(* scheduled-publish pipeline and the webhook-driven auto-reply engine.    *)
(*                                                                         *)
(* Strings the code slices or searches (persona ids, captions, job names,  *)
(* comment texts) are sequences of symbols; opaque strings (tokens, urls)  *)
(* are TLA+ strings.  Instants are integers, in seconds.                   *)
(***************************************************************************)
EXTENDS Integers, Sequences, FiniteSets, TLC

VARIABLES
    token_store,          \* instagram_service._token_store: insertion-ordered dict, as a sequence of entries
    token_file,           \* data/instagram_tokens.json: the durable copy written by _save_token_store
    refresh_jobs,         \* the "ig_token_refresh_<persona>" interval jobs of the job store, in the order added
    jobs,                 \* date-trigger jobs of the job store: job_id -> job
    next_job,             \* number of job ids handed out so far (uuid4: every id is fresh)
    executing,            \* jobs submitted to the executor thread pool whose function has not run yet
    fired,                \* history: ids of the jobs the timer took out of the store to run
    missed,               \* history: ids of the jobs the timer dropped as a misfire
    cancelled,            \* history: ids of the jobs for which cancel returned True
    publish_log,          \* history: one record per run of _execute_publish
    now,                  \* the clock, in seconds
    up,                   \* is the process running
    pending_replies,      \* interact_service.pending_replies: reply_id -> ReplyDraft, reply_id = index
    auto_reply_settings,  \* interact_service._auto_reply_settings: persona_id -> mode
    reply_calls,          \* history: the POST /{comment_id}/replies calls made to the platform
    send_queue,           \* send requests accepted by the server that the event loop has not run yet
    renewing,             \* the refresh_instagram_token call in progress on the scheduler's thread
    resp                  \* the last HTTP request handled, with its response

vars == <<token_store, token_file, refresh_jobs, jobs, next_job, executing, fired, missed,
          cancelled, publish_log, now, up, pending_replies, auto_reply_settings,
          reply_calls, send_queue, renewing, resp>>

credVars  == <<token_store, token_file, refresh_jobs>>
schedVars == <<jobs, next_job, executing, fired, missed, cancelled, publish_log>>
clockVars == <<now, up>>
replyVars == <<pending_replies, auto_reply_settings, reply_calls>>
taskVars  == <<send_queue, renewing>>

\* renewing when no refresh_instagram_token call is in progress
Idle == [pc |-> "idle"]

-----------------------------------------------------------------------------
(* Bounds of the model *)

MaxDrafts == 1        \* ReplyDrafts created in one behaviour
MaxChanges == 2       \* changes carried by one webhook delivery
MaxJobs == 2          \* publish jobs scheduled in one behaviour
MaxPosts == 2         \* posts carried by one schedule request
MaxTime == 60         \* the clock stops once it is past this instant
MaxInFlight == 2      \* send requests waiting for the event loop at one time

-----------------------------------------------------------------------------
(* Identifiers and strings *)

P1 == <<"p", "1">>
A1 == <<"A", "1">>
DEMO == <<"demo">>
P1X == <<"p", "1", ":", "x">>

PersonaIds == {P1, A1, DEMO}
AccountIds == {A1, DEMO}
Tokens == {<<"T">>, <<"IGAA", "2">>}
Usernames == {"h"}
NoToken == <<>>       \* "" as a token
NoId == <<>>          \* None or "" as an identifier

\* str.startswith
StartsWith(s, prefix) ==
    /\ Len(prefix) <= Len(s)
    /\ SubSeq(s, 1, Len(prefix)) = prefix

\* the `in` operator on strings: kw occurs in text as a substring
Contains(text, kw) ==
    \E i \in 1..(Len(text) + 1) :
        /\ i + Len(kw) - 1 <= Len(text)
        /\ SubSeq(text, i, i + Len(kw) - 1) = kw

\* s[:n]
Prefix(s, n) == SubSeq(s, 1, IF Len(s) < n THEN Len(s) ELSE n)

-----------------------------------------------------------------------------
(* Credential store: an insertion-ordered dict persona_id -> info *)

Keys(store) == {store[i].persona_id : i \in 1..Len(store)}

HasKey(store, p) == p \in Keys(store)

IndexOf(store, p) == CHOOSE i \in 1..Len(store) : store[i].persona_id = p

\* _token_store.get(persona_id); only used where the key is present
Info(store, p) == store[IndexOf(store, p)].info

\* _token_store[persona_id] = info: an existing key keeps its place, a new one goes last
Put(store, p, info) ==
    IF HasKey(store, p)
    THEN [store EXCEPT ![IndexOf(store, p)] = [persona_id |-> p, info |-> info]]
    ELSE Append(store, [persona_id |-> p, info |-> info])

\* del _token_store[persona_id]
Del(store, p) ==
    LET i == IndexOf(store, p)
    IN  SubSeq(store, 1, i - 1) \o SubSeq(store, i + 1, Len(store))

\* token_info.get("access_token", "") of _token_store.get(persona_id, {})
AccessTokenOf(store, p) == IF HasKey(store, p) THEN Info(store, p).access_token ELSE NoToken

get_connection_status(p) ==
    IF ~HasKey(token_store, p)
    THEN [connected |-> FALSE]
    ELSE [connected |-> TRUE,
          ig_account_id |-> Info(token_store, p).ig_account_id,
          ig_username |-> Info(token_store, p).ig_username,
          connected_at |-> Info(token_store, p).connected_at]

-----------------------------------------------------------------------------
(* Interaction engine: interact_service.py *)

\* the denylist; each symbol stands for one character of the source's terms
NEGATIVE_KEYWORDS ==
    << <<"zha", "pian">>, <<"jia", "de">>, <<"tui", "kuan">>, <<"tou", "su">>, <<"si">>,
       <<"lan">>, <<"la", "ji">>, <<"pian">>, <<"hei", "xin">> >>

\* check_risk looking for the keywords at the start of the text only
check_risk_at_start(text) ==
    IF \E k \in 1..Len(NEGATIVE_KEYWORDS) : StartsWith(text, NEGATIVE_KEYWORDS[k])
    THEN "high"
    ELSE "low"

check_risk(text) ==
    IF \E k \in 1..Len(NEGATIVE_KEYWORDS) : Contains(text, NEGATIVE_KEYWORDS[k])
    THEN "high"
    ELSE "low"

\* comment texts of the webhook events: empty, harmless, "I want a refund"
CommentTexts == { <<>>, <<"ni", "hao">>, <<"yao", "tui", "kuan">> }

\* what the draft generation yields: the model's text, or the canned acknowledgement
\* when no API key is configured or the API call raises
generate_reply_draft(persona_id, comment_text, commenter_name, llm) ==
    CASE llm = "no_key" -> "canned_no_key"
      [] llm = "error"  -> "canned_api_error"
      [] OTHER          -> "generated"

LlmOutcomes == {"ok", "error"}

get_auto_reply_setting(settings, persona_id) ==
    IF persona_id \in DOMAIN settings THEN settings[persona_id] ELSE "draft"

\* the store after add_pending_reply; the new draft is the last one, reply_id its index
add_pending_reply(replies, persona_id, ig_comment_id, ig_media_id, commenter_name, comment_text, draft_text, risk_level, t) ==
    Append(replies,
           [reply_id |-> Len(replies) + 1,
            persona_id |-> persona_id,
            ig_comment_id |-> ig_comment_id,
            ig_media_id |-> ig_media_id,
            commenter_name |-> commenter_name,
            comment_text |-> comment_text,
            draft_text |-> draft_text,
            risk_level |-> risk_level,
            status |-> "pending",
            created_at |-> t])

get_pending_replies(replies, persona_id) ==
    {i \in 1..Len(replies) :
        replies[i].persona_id = persona_id /\ replies[i].status = "pending"}

\* send_reply marking the draft sent before the platform answered
send_reply_marks_first(st, reply_id, access_token, platform_ok) ==
    IF reply_id \notin 1..Len(st.replies)
    THEN [st |-> st, exc |-> "ValueError"]
    ELSE IF st.replies[reply_id].status # "pending"
    THEN [st |-> st, exc |-> "ValueError"]
    ELSE LET call == [reply_id |-> reply_id,
                      ig_comment_id |-> st.replies[reply_id].ig_comment_id,
                      message |-> st.replies[reply_id].draft_text,
                      access_token |-> access_token,
                      ok |-> platform_ok]
             marked == [st EXCEPT !.calls = @ \cup {call},
                                  !.replies[reply_id].status = "sent"]
         IN  [st |-> marked, exc |-> IF platform_ok THEN "none" ELSE "RuntimeError"]

\* send_reply posting whatever the status of the draft is
send_reply_resends(st, reply_id, access_token, platform_ok) ==
    IF reply_id \notin 1..Len(st.replies)
    THEN [st |-> st, exc |-> "ValueError"]
    ELSE LET call == [reply_id |-> reply_id,
                      ig_comment_id |-> st.replies[reply_id].ig_comment_id,
                      message |-> st.replies[reply_id].draft_text,
                      access_token |-> access_token,
                      ok |-> platform_ok]
             called == [st EXCEPT !.calls = @ \cup {call}]
         IN  IF ~platform_ok
             THEN [st |-> called, exc |-> "RuntimeError"]
             ELSE [st |-> [called EXCEPT !.replies[reply_id].status = "sent"],
                   exc |-> "none"]

\* interact_service.send_reply on the state st = [replies, calls]; platform_ok is the
\* outcome of the platform call, should it be made.  exc is the exception raised.
send_reply(st, reply_id, access_token, platform_ok) ==
    IF reply_id \notin 1..Len(st.replies)
    THEN [st |-> st, exc |-> "ValueError"]
    ELSE IF st.replies[reply_id].status # "pending"
    THEN [st |-> st, exc |-> "ValueError"]
    ELSE LET call == [reply_id |-> reply_id,
                      ig_comment_id |-> st.replies[reply_id].ig_comment_id,
                      message |-> st.replies[reply_id].draft_text,
                      access_token |-> access_token,
                      ok |-> platform_ok]
             called == [st EXCEPT !.calls = @ \cup {call}]
         IN  IF ~platform_ok
             THEN [st |-> called, exc |-> "RuntimeError"]
             ELSE [st |-> [called EXCEPT !.replies[reply_id].status = "sent"],
                   exc |-> "none"]

\* interact_service.dismiss_reply
dismiss_reply(st, reply_id) ==
    IF reply_id \notin 1..Len(st.replies)
    THEN [st |-> st, exc |-> "ValueError"]
    ELSE [st |-> [st EXCEPT !.replies[reply_id].status = "dismissed"], exc |-> "none"]

Modes == {"draft", "auto"}

\* set_auto_reply_setting without the check of the mode
set_auto_reply_setting_unvalidated(settings, persona_id, mode) ==
    [settings |-> [p \in DOMAIN settings \cup {persona_id} |->
                      IF p = persona_id THEN mode ELSE settings[p]],
     exc |-> "none"]

\* interact_service.set_auto_reply_setting
set_auto_reply_setting(settings, persona_id, mode) ==
    IF mode \notin Modes
    THEN [settings |-> settings, exc |-> "ValueError"]
    ELSE [settings |-> [p \in DOMAIN settings \cup {persona_id} |->
                            IF p = persona_id THEN mode ELSE settings[p]],
          exc |-> "none"]

-----------------------------------------------------------------------------
(* Interaction API: api/interact.py *)

\* _resolve_persona_id looking the account id up among the keys of the store
resolve_persona_id_by_key(store, ig_account_id) ==
    IF HasKey(store, ig_account_id) THEN ig_account_id ELSE DEMO

\* _resolve_persona_id: the first persona, in the store's order, whose account id is
\* the event's; "demo" when none is
resolve_persona_id(store, ig_account_id) ==
    LET hits == {i \in 1..Len(store) : store[i].info.ig_account_id = ig_account_id}
    IN  IF hits = {}
        THEN DEMO
        ELSE store[CHOOSE i \in hits : \A j \in hits : i <= j].persona_id

\* route_comment with the risk gate left out: auto mode alone triggers the dispatch
route_comment_no_risk_gate(st, store, persona_id, ch, draft_text, risk_level, mode, t) ==
    LET added == [st EXCEPT !.replies =
                     add_pending_reply(st.replies, persona_id, ch.comment_id, ch.media_id,
                                       ch.from_name, ch.text, draft_text, risk_level, t)]
        access_token == AccessTokenOf(store, persona_id)
    IN  IF mode = "auto" /\ access_token # NoToken
        THEN send_reply(added, Len(added.replies), access_token, ch.platform_ok).st
        ELSE added

\* The routing of one comment whose draft text, risk and mode are known (the body of
\* the try block): add the draft and, in auto mode at low risk with a token, send it.
\* An exception of send_reply is caught and logged by the handler.
route_comment(st, store, persona_id, ch, draft_text, risk_level, mode, t) ==
    LET added == [st EXCEPT !.replies =
                     add_pending_reply(st.replies, persona_id, ch.comment_id, ch.media_id,
                                       ch.from_name, ch.text, draft_text, risk_level, t)]
        access_token == AccessTokenOf(store, persona_id)
    IN  IF mode = "auto" /\ risk_level = "low"
        THEN IF access_token # NoToken
             THEN send_reply(added, Len(added.replies), access_token, ch.platform_ok).st
             ELSE added
        ELSE added

\* handle_change in which a failing reply generation raises inside the try block: the
\* comment is logged and gets no draft
handle_change_generation_blocks(st, store, settings, ch, t) ==
    IF ch.shape = "malformed"
    THEN [st EXCEPT !.aborted = TRUE]
    ELSE IF ch.shape # "comments" \/ ch.text = <<>> \/ ch.llm # "ok"
    THEN st
    ELSE LET persona_id == resolve_persona_id(store, ch.from_id)
             draft_text == generate_reply_draft(persona_id, ch.text, ch.from_name, ch.llm)
             risk_level == check_risk(ch.text)
             mode == get_auto_reply_setting(settings, persona_id)
             routed == route_comment([replies |-> st.replies, calls |-> st.calls],
                                     store, persona_id, ch, draft_text, risk_level, mode, t)
         IN  [replies |-> routed.replies,
              calls |-> routed.calls,
              handled |-> Append(st.handled,
                                 [reply_id |-> Len(st.replies) + 1,
                                  from_id |-> ch.from_id,
                                  llm |-> ch.llm,
                                  persona_id |-> persona_id,
                                  mode |-> mode,
                                  risk_level |-> risk_level,
                                  had_token |-> AccessTokenOf(store, persona_id) # NoToken,
                                  platform_ok |-> ch.platform_ok]),
              aborted |-> FALSE]

\* One change of the payload.  st = [replies, calls, handled, aborted]; handled records,
\* for each draft created, what the handler saw when it routed the comment.
handle_change(st, store, settings, ch, t) ==
    IF ch.shape = "malformed"
    THEN [st EXCEPT !.aborted = TRUE]      \* raises outside the try block: the request ends in 500
    ELSE IF ch.shape # "comments"
    THEN st                                \* field != "comments": continue
    ELSE IF ch.text = <<>>
    THEN st                                \* empty text: skipped
    ELSE LET persona_id == resolve_persona_id(store, ch.from_id)
             draft_text == generate_reply_draft(persona_id, ch.text, ch.from_name, ch.llm)
             risk_level == check_risk(ch.text)
             mode == get_auto_reply_setting(settings, persona_id)
             routed == route_comment([replies |-> st.replies, calls |-> st.calls],
                                     store, persona_id, ch, draft_text, risk_level, mode, t)
         IN  [replies |-> routed.replies,
              calls |-> routed.calls,
              handled |-> Append(st.handled,
                                 [reply_id |-> Len(st.replies) + 1,
                                  from_id |-> ch.from_id,
                                  llm |-> ch.llm,
                                  persona_id |-> persona_id,
                                  mode |-> mode,
                                  risk_level |-> risk_level,
                                  had_token |-> AccessTokenOf(store, persona_id) # NoToken,
                                  platform_ok |-> ch.platform_ok]),
              aborted |-> FALSE]

\* the loops over entry[].changes[], flattened: the changes in payload order, until one raises
RECURSIVE handle_changes(_, _, _, _, _, _)
handle_changes(st, store, settings, payload, i, t) ==
    IF i > Len(payload) \/ st.aborted
    THEN st
    ELSE handle_changes(handle_change(st, store, settings, payload[i], t),
                        store, settings, payload, i + 1, t)

\* the changes a delivery is made of: a harmless comment the platform will or will not
\* accept a reply to, a complaint, a comment of an account no persona owns, a comment
\* whose reply generation fails (the API raising, or no API key), a comment without
\* text, and a change that is no JSON object
Comment(from_id, text, platform_ok) ==
    [shape |-> "comments", from_id |-> from_id, from_name |-> "fan", comment_id |-> "c1",
     media_id |-> "m1", text |-> text, llm |-> "ok", platform_ok |-> platform_ok]

Changes ==
    { Comment(A1, <<"ni", "hao">>, TRUE),
      Comment(A1, <<"ni", "hao">>, FALSE),
      Comment(A1, <<"yao", "tui", "kuan">>, TRUE),
      Comment(<<"u", "9">>, <<"ni", "hao">>, TRUE),
      [Comment(A1, <<"ni", "hao">>, TRUE) EXCEPT !.llm = "error"],
      [Comment(<<"u", "9">>, <<"ni", "hao">>, TRUE) EXCEPT !.llm = "no_key"],
      Comment(A1, <<>>, TRUE),
      [Comment(A1, <<"ni", "hao">>, TRUE) EXCEPT !.shape = "malformed"] }

Payloads == UNION {[1..n -> Changes] : n \in 0..MaxChanges}

\* a delivery of one harmless comment
HelloPayload == <<Comment(A1, <<"ni", "hao">>, TRUE)>>

Signatures == {"valid", "invalid", "missing"}

\* the place of the first change of a payload that is no JSON object, one past the end
\* when there is none
FirstMalformed(payload) ==
    LET bad == {i \in 1..Len(payload) : payload[i].shape = "malformed"}
    IN  IF bad = {} THEN Len(payload) + 1 ELSE CHOOSE i \in bad : \A j \in bad : i <= j

\* the drafts a payload can add at most: one per comment change with a text
CommentCount(payload) ==
    Cardinality({i \in 1..Len(payload) : payload[i].shape = "comments" /\ payload[i].text # <<>>})

WEBHOOK_VERIFY_TOKEN == <<"virtual_prism_webhook_token">>

\* a query parameter the request does not carry (None)
Missing == <<"None">>

VerificationFailed == <<"Webhook verification failed">>

\* GET /webhook/instagram accepting every token that begins with the verify token
instagram_webhook_verify_by_prefix(hub_mode, hub_verify_token, hub_challenge) ==
    /\ up
    /\ resp' = IF hub_mode = <<"subscribe">> /\ StartsWith(hub_verify_token, WEBHOOK_VERIFY_TOKEN)
               THEN [op |-> "verify", hub_mode |-> hub_mode,
                     hub_verify_token |-> hub_verify_token, hub_challenge |-> hub_challenge,
                     status |-> 200,
                     body |-> IF hub_challenge = Missing THEN <<>> ELSE hub_challenge]
               ELSE [op |-> "verify", hub_mode |-> hub_mode,
                     hub_verify_token |-> hub_verify_token, hub_challenge |-> hub_challenge,
                     status |-> 403, body |-> VerificationFailed]
    /\ UNCHANGED <<credVars, schedVars, clockVars, taskVars, replyVars>>

\* GET /webhook/instagram: the hub verification
instagram_webhook_verify(hub_mode, hub_verify_token, hub_challenge) ==
    /\ up
    /\ resp' = IF hub_mode = <<"subscribe">> /\ hub_verify_token = WEBHOOK_VERIFY_TOKEN
               THEN [op |-> "verify", hub_mode |-> hub_mode,
                     hub_verify_token |-> hub_verify_token, hub_challenge |-> hub_challenge,
                     status |-> 200,
                     body |-> IF hub_challenge = Missing THEN <<>> ELSE hub_challenge]
               ELSE [op |-> "verify", hub_mode |-> hub_mode,
                     hub_verify_token |-> hub_verify_token, hub_challenge |-> hub_challenge,
                     status |-> 403, body |-> VerificationFailed]
    /\ UNCHANGED <<credVars, schedVars, clockVars, taskVars, replyVars>>

\* a call of check_risk(text) on its own
call_check_risk(text) ==
    /\ up
    /\ resp' = [op |-> "classify", text |-> text, risk |-> check_risk(text)]
    /\ UNCHANGED <<credVars, schedVars, clockVars, taskVars, replyVars>>

\* POST /webhook/instagram.  sig tells how the X-Hub-Signature-256 header compares with
\* the HMAC of the body under the app secret; the handler never reads the header.
instagram_webhook(sig, json_ok, payload) ==
    /\ up
    /\ Len(pending_replies) + CommentCount(payload) <= MaxDrafts
    /\ LET st0 == [replies |-> pending_replies, calls |-> reply_calls,
                   handled |-> <<>>, aborted |-> FALSE]
           st == IF json_ok
                 THEN handle_changes(st0, token_store, auto_reply_settings, payload, 1, now)
                 ELSE st0
       IN  /\ pending_replies' = st.replies
           /\ reply_calls' = st.calls
           /\ resp' = [op |-> "webhook", sig |-> sig,
                       status |-> IF ~json_ok THEN 400 ELSE IF st.aborted THEN 500 ELSE 200,
                       handled |-> st.handled,
                       comments |-> CommentCount(payload),
                       reached |-> CommentCount(SubSeq(payload, 1, FirstMalformed(payload) - 1)),
                       drafts_before |-> Len(pending_replies),
                       calls_before |-> reply_calls]
    /\ UNCHANGED <<credVars, schedVars, clockVars, taskVars, auto_reply_settings>>

\* POST /replies/{reply_id}/send answering success whatever the dispatch did
api_send_reply_swallows(reply_id, persona_id, platform_ok) ==
    /\ up
    /\ LET access_token == AccessTokenOf(token_store, persona_id)
           r == send_reply([replies |-> pending_replies, calls |-> reply_calls],
                           reply_id, access_token, platform_ok)
           before == IF reply_id \in 1..Len(pending_replies)
                     THEN pending_replies[reply_id].status ELSE "absent"
       IN  IF access_token = NoToken
           THEN /\ resp' = [op |-> "send", reply_id |-> reply_id, persona_id |-> persona_id,
                            status |-> 400, before |-> before, platform_ok |-> platform_ok]
                /\ UNCHANGED <<pending_replies, reply_calls>>
           ELSE /\ pending_replies' = r.st.replies
                /\ reply_calls' = r.st.calls
                /\ resp' = [op |-> "send", reply_id |-> reply_id, persona_id |-> persona_id,
                            status |-> CASE r.exc = "ValueError" -> 404
                                         [] r.exc = "RuntimeError" -> 200
                                         [] OTHER -> 200,
                            before |-> before, platform_ok |-> platform_ok]
    /\ UNCHANGED <<credVars, schedVars, clockVars, taskVars, auto_reply_settings>>

\* the handler of POST /replies/{reply_id}/send: an async function without an await, so
\* the event loop runs it from its first statement to its last with nothing in between
send_route(reply_id, persona_id, platform_ok) ==
    /\ up
    /\ LET access_token == AccessTokenOf(token_store, persona_id)
           r == send_reply([replies |-> pending_replies, calls |-> reply_calls],
                           reply_id, access_token, platform_ok)
           before == IF reply_id \in 1..Len(pending_replies)
                     THEN pending_replies[reply_id].status ELSE "absent"
       IN  IF access_token = NoToken
           THEN /\ resp' = [op |-> "send", reply_id |-> reply_id, persona_id |-> persona_id,
                            status |-> 400, before |-> before, platform_ok |-> platform_ok]
                /\ UNCHANGED <<pending_replies, reply_calls>>
           ELSE /\ pending_replies' = r.st.replies
                /\ reply_calls' = r.st.calls
                /\ resp' = [op |-> "send", reply_id |-> reply_id, persona_id |-> persona_id,
                            status |-> CASE r.exc = "ValueError" -> 404
                                         [] r.exc = "RuntimeError" -> 502
                                         [] OTHER -> 200,
                            before |-> before, platform_ok |-> platform_ok]
    /\ UNCHANGED <<credVars, schedVars, clockVars, auto_reply_settings>>

\* POST /replies/{reply_id}/send, handled as it arrives
api_send_reply(reply_id, persona_id, platform_ok) ==
    /\ send_route(reply_id, persona_id, platform_ok)
    /\ UNCHANGED taskVars

\* POST /replies/{reply_id}/send arriving while the event loop is busy: the request
\* waits for the loop
receive_send(reply_id, persona_id, platform_ok) ==
    /\ up
    /\ Len(send_queue) < MaxInFlight
    /\ send_queue' = Append(send_queue, [reply_id |-> reply_id, persona_id |-> persona_id,
                                         platform_ok |-> platform_ok])
    /\ UNCHANGED <<credVars, schedVars, clockVars, replyVars, renewing, resp>>

\* the event loop takes up one of the waiting send requests and runs its handler
run_send(i) ==
    /\ i \in 1..Len(send_queue)
    /\ send_route(send_queue[i].reply_id, send_queue[i].persona_id, send_queue[i].platform_ok)
    /\ send_queue' = SubSeq(send_queue, 1, i - 1) \o SubSeq(send_queue, i + 1, Len(send_queue))
    /\ UNCHANGED renewing

\* POST /replies/{reply_id}/dismiss
api_dismiss_reply(reply_id) ==
    /\ up
    /\ LET r == dismiss_reply([replies |-> pending_replies, calls |-> reply_calls], reply_id)
           before == IF reply_id \in 1..Len(pending_replies)
                     THEN pending_replies[reply_id].status ELSE "absent"
       IN  /\ pending_replies' = r.st.replies
           /\ resp' = [op |-> "dismiss", reply_id |-> reply_id,
                       status |-> IF r.exc = "ValueError" THEN 404 ELSE 200,
                       before |-> before]
    /\ UNCHANGED <<credVars, schedVars, clockVars, taskVars, auto_reply_settings, reply_calls>>

\* GET /settings/{persona_id}
get_settings(persona_id) ==
    /\ up
    /\ resp' = [op |-> "get_settings", persona_id |-> persona_id, status |-> 200,
                mode |-> get_auto_reply_setting(auto_reply_settings, persona_id)]
    /\ UNCHANGED <<credVars, schedVars, clockVars, taskVars, replyVars>>

\* POST /settings/{persona_id}
update_settings(persona_id, mode) ==
    /\ up
    /\ LET r == set_auto_reply_setting(auto_reply_settings, persona_id, mode)
       IN  /\ auto_reply_settings' = r.settings
           /\ resp' = [op |-> "update_settings", persona_id |-> persona_id, mode |-> mode,
                       status |-> IF r.exc = "ValueError" THEN 400 ELSE 200]
    /\ UNCHANGED <<credVars, schedVars, clockVars, taskVars, pending_replies, reply_calls>>

-----------------------------------------------------------------------------
(* Credential lifecycle: instagram_service.py *)

\* _save_token_store: the file gets the in-memory store; a failed write is only logged
save_token_store(file, store, disk_ok) == IF disk_ok THEN store ELSE file

\* the personas that have a refresh job: _scheduler.get_job(job_id) is not None
TimerIds(timers) == {timers[i] : i \in 1..Len(timers)}

\* _scheduler.remove_job(job_id) on a refresh job
RemoveTimer(timers, p) == SelectSeq(timers, LAMBDA q : q # p)

\* _schedule_token_refresh_jobs from the i-th key of the store on: a refresh job is added
\* for every persona of the store that has none
RECURSIVE register_refresh_jobs(_, _, _)
register_refresh_jobs(timers, store, i) ==
    IF i > Len(store)
    THEN timers
    ELSE register_refresh_jobs(
             IF store[i].persona_id \in TimerIds(timers)
             THEN timers
             ELSE Append(timers, store[i].persona_id),
             store, i + 1)

\* _schedule_token_refresh_jobs adding a job for every persona without asking for the
\* one it may have
schedule_token_refresh_jobs_unguarded(timers, store) ==
    timers \o [i \in 1..Len(store) |-> store[i].persona_id]

schedule_token_refresh_jobs(timers, store) == register_refresh_jobs(timers, store, 1)

\* INSTAGRAM_ACCESS_TOKEN of the environment: the credential the operator provisioned
ENV_ACCESS_TOKEN == <<"IGAA", "env">>

\* INSTAGRAM_USER_ID / INSTAGRAM_USERNAME of the environment (unset)
ENV_USER_ID == NoId
ENV_USERNAME == ""

DEFAULT == <<"default">>

\* the lifetime of a long-lived token, in seconds, assumed when the platform names none
DEFAULT_EXPIRES_IN == 5183944

\* _init_env_token: persona "default" is pre-seeded when the environment holds both a
\* token and a user id
init_env_token(store) ==
    IF ENV_ACCESS_TOKEN # NoToken /\ ENV_USER_ID # NoId /\ ~HasKey(store, DEFAULT)
    THEN Put(store, DEFAULT, [access_token |-> ENV_ACCESS_TOKEN,
                              ig_account_id |-> ENV_USER_ID,
                              ig_username |-> IF ENV_USERNAME # "" THEN ENV_USERNAME ELSE "ig_user",
                              expires_at |-> "2099-12-31"])
    ELSE store

\* get_instagram_account_id answering the identifier of the environment, when there is
\* one, before any platform lookup
get_instagram_account_id_env_first(access_token, net) ==
    IF net.env_user_id # NoId
    THEN [id |-> net.env_user_id,
          username |-> IF ENV_USERNAME # "" THEN ENV_USERNAME ELSE "unknown",
          tried |-> <<"env">>]
    ELSE IF StartsWith(access_token, <<"IGAA">>) /\ net.ig_me # NoId
    THEN [id |-> net.ig_me, username |-> net.username, tried |-> <<"ig_me">>]
    ELSE IF net.fb_pages # NoId
    THEN [id |-> net.fb_pages, username |-> net.username, tried |-> <<"fb_pages">>]
    ELSE IF net.fb_me # NoId
    THEN [id |-> net.fb_me, username |-> net.username, tried |-> <<"fb_pages", "fb_me">>]
    ELSE [id |-> NoId, username |-> "", tried |-> <<"fb_pages", "fb_me", "env">>]

\* get_instagram_account_id.  net holds what each platform lookup finds (NoId: the
\* request fails or finds no account) and the INSTAGRAM_USER_ID of the environment at
\* the time of the call.  id = NoId in the result: RuntimeError raised.
get_instagram_account_id(access_token, net) ==
    IF StartsWith(access_token, <<"IGAA">>) /\ net.ig_me # NoId
    THEN [id |-> net.ig_me, username |-> net.username, tried |-> <<"ig_me">>]
    ELSE LET t0 == IF StartsWith(access_token, <<"IGAA">>) THEN <<"ig_me">> ELSE <<>>
         IN  IF net.fb_pages # NoId
             THEN [id |-> net.fb_pages, username |-> net.username,
                   tried |-> t0 \o <<"fb_pages">>]
             ELSE IF net.fb_me # NoId
             THEN [id |-> net.fb_me, username |-> net.username,
                   tried |-> t0 \o <<"fb_pages", "fb_me">>]
             ELSE IF net.env_user_id # NoId
             THEN [id |-> net.env_user_id,
                   username |-> IF ENV_USERNAME # "" THEN ENV_USERNAME ELSE "unknown",
                   tried |-> t0 \o <<"fb_pages", "fb_me", "env">>]
             ELSE [id |-> NoId, username |-> "", tried |-> t0 \o <<"fb_pages", "fb_me", "env">>]

\* the account lookups all answering nothing, so that the account id given with the
\* request is used, and the Instagram lookup answering the account A1
NoLookup == [ig_me |-> NoId, fb_pages |-> NoId, fb_me |-> NoId, username |-> "h", env_user_id |-> ENV_USER_ID]
LookupA1 == [ig_me |-> A1, fb_pages |-> NoId, fb_me |-> NoId, username |-> "h", env_user_id |-> ENV_USER_ID]

\* a call of get_instagram_account_id(access_token) on its own, as the unit tests make it
call_get_instagram_account_id(access_token, net) ==
    /\ up
    /\ LET got == get_instagram_account_id(access_token, net)
       IN  resp' = [op |-> "resolve", access_token |-> access_token, net |-> net,
                    id |-> got.id, username |-> got.username, tried |-> got.tried,
                    raised |-> got.id = NoId]
    /\ UNCHANGED <<token_store, token_file, refresh_jobs, jobs, next_job, executing, fired,
                   missed, cancelled, publish_log, now, up, pending_replies,
                   auto_reply_settings, reply_calls, taskVars>>

NetLookups ==
    [ig_me : {NoId}, fb_pages : {NoId}, fb_me : {NoId, A1}, username : {"h"}, env_user_id : {ENV_USER_ID}]

\* connect_with_access_token keeping the persona_id of the request as the key
connect_with_access_token_keeps_persona(persona_id, access_token, ig_user_id, ig_username, net, disk_ok, t) ==
    LET fetch == ig_user_id = NoId \/ ig_username = ""
        got == get_instagram_account_id(access_token, net)
        uid == IF ig_user_id # NoId THEN ig_user_id ELSE got.id
        uname == IF ig_username # "" THEN ig_username ELSE got.username
        info == [access_token |-> access_token,
                 ig_account_id |-> uid,
                 ig_username |-> uname,
                 expires_in |-> DEFAULT_EXPIRES_IN,
                 connected_at |-> t]
        store == Put(token_store, persona_id, info)
    IN  IF fetch /\ got.id = NoId
        THEN [store |-> token_store, file |-> token_file, timers |-> refresh_jobs,
              key |-> NoId, info |-> info]
        ELSE [store |-> store,
              file |-> save_token_store(token_file, store, disk_ok),
              timers |-> schedule_token_refresh_jobs(refresh_jobs, store),
              key |-> persona_id, info |-> info]

\* connect_with_access_token keeping the connection an account already has
connect_with_access_token_first_wins(persona_id, access_token, ig_user_id, ig_username, net, disk_ok, t) ==
    LET fetch == ig_user_id = NoId \/ ig_username = ""
        got == get_instagram_account_id(access_token, net)
        uid == IF ig_user_id # NoId THEN ig_user_id ELSE got.id
        uname == IF ig_username # "" THEN ig_username ELSE got.username
        info == [access_token |-> access_token,
                 ig_account_id |-> uid,
                 ig_username |-> uname,
                 expires_in |-> DEFAULT_EXPIRES_IN,
                 connected_at |-> t]
        store == IF HasKey(token_store, uid) THEN token_store ELSE Put(token_store, uid, info)
    IN  IF fetch /\ got.id = NoId
        THEN [store |-> token_store, file |-> token_file, timers |-> refresh_jobs,
              key |-> NoId, info |-> info]
        ELSE [store |-> store,
              file |-> save_token_store(token_file, store, disk_ok),
              timers |-> schedule_token_refresh_jobs(refresh_jobs, store),
              key |-> uid, info |-> info]

\* connect_with_access_token: the store, file and refresh jobs afterwards, and the key
\* the connection went under (NoId: the account lookup raised, nothing changed)
connect_with_access_token(persona_id, access_token, ig_user_id, ig_username, net, disk_ok, t) ==
    LET fetch == ig_user_id = NoId \/ ig_username = ""
        got == get_instagram_account_id(access_token, net)
        uid == IF ig_user_id # NoId THEN ig_user_id ELSE got.id
        uname == IF ig_username # "" THEN ig_username ELSE got.username
        actual_persona_id == uid
        info == [access_token |-> access_token,
                 ig_account_id |-> uid,
                 ig_username |-> uname,
                 expires_in |-> DEFAULT_EXPIRES_IN,
                 connected_at |-> t]
        store == Put(token_store, actual_persona_id, info)
    IN  IF fetch /\ got.id = NoId
        THEN [store |-> token_store, file |-> token_file, timers |-> refresh_jobs,
              key |-> NoId, info |-> info]
        ELSE [store |-> store,
              file |-> save_token_store(token_file, store, disk_ok),
              timers |-> schedule_token_refresh_jobs(refresh_jobs, store),
              key |-> actual_persona_id, info |-> info]

\* POST /connect-token
connect_with_token(persona_id, access_token, ig_user_id, ig_username, net, disk_ok) ==
    /\ up
    /\ LET r == connect_with_access_token(persona_id, access_token, ig_user_id, ig_username,
                                          net, disk_ok, now)
       IN  /\ token_store' = r.store
           /\ token_file' = r.file
           /\ refresh_jobs' = r.timers
           /\ resp' = IF r.key = NoId
                      THEN [op |-> "connect_token", req_persona_id |-> persona_id, status |-> 400]
                      ELSE [op |-> "connect_token", req_persona_id |-> persona_id, status |-> 200,
                            persona_id |-> r.info.ig_account_id,
                            ig_account_id |-> r.info.ig_account_id,
                            ig_username |-> r.info.ig_username,
                            access_token |-> access_token,
                            given_ig_user_id |-> ig_user_id,
                            given_ig_username |-> ig_username,
                            net |-> net]
    /\ UNCHANGED <<schedVars, clockVars, taskVars, replyVars>>

\* disconnect_persona answering True whether or not the persona had a connection
disconnect_persona_always_true(store, persona_id) ==
    [store |-> IF HasKey(store, persona_id) THEN Del(store, persona_id) ELSE store,
     removed |-> TRUE]

\* disconnect_persona: the store afterwards and the value returned (the file is not rewritten)
disconnect_persona(store, persona_id) ==
    IF HasKey(store, persona_id)
    THEN [store |-> Del(store, persona_id), removed |-> TRUE]
    ELSE [store |-> store, removed |-> FALSE]

\* DELETE /token/{persona_id}
disconnect(persona_id) ==
    /\ up
    /\ LET r == disconnect_persona(token_store, persona_id)
       IN  /\ token_store' = r.store
           /\ resp' = [op |-> "disconnect", persona_id |-> persona_id, status |-> 200,
                       disconnected |-> r.removed,
                       had_connection |-> HasKey(token_store, persona_id)]
    /\ UNCHANGED <<token_file, refresh_jobs, schedVars, clockVars, taskVars, replyVars>>

\* GET /status
get_status(persona_id) ==
    /\ up
    /\ resp' = [op |-> "status", persona_id |-> persona_id, status |-> 200,
                connected |-> get_connection_status(persona_id).connected,
                had_connection |-> HasKey(token_store, persona_id)]
    /\ UNCHANGED <<credVars, schedVars, clockVars, taskVars, replyVars>>

\* the long-lived token the OAuth exchange yields
LONG_TOKEN == <<"IGAA", "2">>

\* how the two token requests of the OAuth exchange go
OauthAnswers == {"ok", "short_failed", "long_failed"}

\* exchange_code_for_token assigning a new store that holds the one persona
exchange_code_for_token_replaces_store(state, oauth, net, t) ==
    LET got == get_instagram_account_id(LONG_TOKEN, net)
        info == [access_token |-> LONG_TOKEN,
                 ig_account_id |-> got.id,
                 ig_username |-> got.username,
                 expires_in |-> DEFAULT_EXPIRES_IN,
                 connected_at |-> t]
        store == <<[persona_id |-> state, info |-> info]>>
    IN  IF oauth # "ok" \/ got.id = NoId
        THEN [store |-> token_store, timers |-> refresh_jobs, exc |-> "RuntimeError",
              info |-> info]
        ELSE [store |-> store,
              timers |-> schedule_token_refresh_jobs(refresh_jobs, store),
              exc |-> "none", info |-> info]

\* exchange_code_for_token writing the store before the account is resolved: a failed
\* resolution leaves a Connection without an account
exchange_code_for_token_stores_early(state, oauth, net, t) ==
    LET got == get_instagram_account_id(LONG_TOKEN, net)
        info == [access_token |-> LONG_TOKEN,
                 ig_account_id |-> got.id,
                 ig_username |-> got.username,
                 expires_in |-> DEFAULT_EXPIRES_IN,
                 connected_at |-> t]
        store == Put(token_store, state, info)
    IN  IF oauth # "ok"
        THEN [store |-> token_store, timers |-> refresh_jobs, exc |-> "RuntimeError",
              info |-> info]
        ELSE IF got.id = NoId
        THEN [store |-> store, timers |-> refresh_jobs, exc |-> "RuntimeError", info |-> info]
        ELSE [store |-> store,
              timers |-> schedule_token_refresh_jobs(refresh_jobs, store),
              exc |-> "none", info |-> info]

\* exchange_code_for_token: the store and refresh jobs afterwards (the file is not
\* written), or the exception raised with nothing changed
exchange_code_for_token(state, oauth, net, t) ==
    LET got == get_instagram_account_id(LONG_TOKEN, net)
        persona_id == state
        info == [access_token |-> LONG_TOKEN,
                 ig_account_id |-> got.id,
                 ig_username |-> got.username,
                 expires_in |-> DEFAULT_EXPIRES_IN,
                 connected_at |-> t]
        store == Put(token_store, persona_id, info)
    IN  IF oauth # "ok" \/ got.id = NoId
        THEN [store |-> token_store, timers |-> refresh_jobs, exc |-> "RuntimeError",
              info |-> info]
        ELSE [store |-> store,
              timers |-> schedule_token_refresh_jobs(refresh_jobs, store),
              exc |-> "none", info |-> info]

\* POST /exchange
exchange_code(state, oauth, net) ==
    /\ up
    /\ LET r == exchange_code_for_token(state, oauth, net, now)
       IN  /\ token_store' = r.store
           /\ refresh_jobs' = r.timers
           /\ resp' = IF r.exc # "none"
                      THEN [op |-> "exchange", persona_id |-> state, status |-> 400,
                            oauth |-> oauth, net |-> net]
                      ELSE [op |-> "exchange", persona_id |-> state, status |-> 200,
                            oauth |-> oauth, net |-> net, info |-> r.info]
    /\ UNCHANGED <<token_file, schedVars, clockVars, taskVars, replyVars>>

\* dict update: info[k] = v for every k |-> v of updates
UpdateInfo(info, updates) ==
    [k \in DOMAIN info \cup DOMAIN updates |->
        IF k \in DOMAIN updates THEN updates[k] ELSE info[k]]

\* the token a renewal yields
REFRESHED_TOKEN == <<"IGAA", "3">>

\* what the platform answers to the refresh request: a new token, a transport error, an
\* error status, a rate-limit status, or a body without a token
RefreshAnswers == {"ok", "request_error", "error_status", "rate_limited", "no_token"}

\* refresh_instagram_token writing the answer into the store before looking at it
refresh_instagram_token_writes_first(store, file, persona_id, answer, disk_ok, t) ==
    LET quiet == [store |-> store, file |-> file, calls |-> 0, notifications |-> <<>>,
                  flushes |-> 0, raised |-> FALSE]
        written == Put(store, persona_id,
                       UpdateInfo(Info(store, persona_id),
                                  [access_token |-> IF answer = "ok" THEN REFRESHED_TOKEN
                                                    ELSE NoToken,
                                   refreshed_at |-> t,
                                   expires_in |-> DEFAULT_EXPIRES_IN]))
    IN  IF ~HasKey(store, persona_id)
        THEN quiet
        ELSE IF Info(store, persona_id).access_token = NoToken
        THEN [quiet EXCEPT !.notifications = <<"failure">>]
        ELSE IF answer = "ok"
        THEN [store |-> written,
              file |-> save_token_store(file, written, disk_ok),
              calls |-> 1, notifications |-> <<"success">>, flushes |-> 1,
              raised |-> FALSE]
        ELSE [quiet EXCEPT !.store = written, !.calls = 1, !.notifications = <<"failure">>]

\* refresh_instagram_token without the call of _save_token_store
refresh_instagram_token_no_flush(store, file, persona_id, answer, disk_ok, t) ==
    LET quiet == [store |-> store, file |-> file, calls |-> 0, notifications |-> <<>>,
                  flushes |-> 0, raised |-> FALSE]
    IN  IF ~HasKey(store, persona_id)
        THEN quiet
        ELSE IF Info(store, persona_id).access_token = NoToken
        THEN [quiet EXCEPT !.notifications = <<"failure">>]
        ELSE IF answer = "ok"
        THEN [quiet EXCEPT !.store = Put(store, persona_id,
                                         UpdateInfo(Info(store, persona_id),
                                                    [access_token |-> REFRESHED_TOKEN,
                                                     refreshed_at |-> t,
                                                     expires_in |-> DEFAULT_EXPIRES_IN])),
                           !.calls = 1, !.notifications = <<"success">>]
        ELSE [quiet EXCEPT !.calls = 1, !.notifications = <<"failure">>]

\* refresh_instagram_token reporting a failure for a persona without a connection
refresh_instagram_token_alerts_absent(store, file, persona_id, answer, disk_ok, t) ==
    LET quiet == [store |-> store, file |-> file, calls |-> 0, notifications |-> <<>>,
                  flushes |-> 0, raised |-> FALSE]
    IN  IF ~HasKey(store, persona_id) \/ Info(store, persona_id).access_token = NoToken
        THEN [quiet EXCEPT !.notifications = <<"failure">>]
        ELSE IF answer = "ok"
        THEN LET refreshed == Put(store, persona_id,
                                  UpdateInfo(Info(store, persona_id),
                                             [access_token |-> REFRESHED_TOKEN,
                                              refreshed_at |-> t,
                                              expires_in |-> DEFAULT_EXPIRES_IN]))
             IN  [store |-> refreshed,
                  file |-> save_token_store(file, refreshed, disk_ok),
                  calls |-> 1, notifications |-> <<"success">>, flushes |-> 1,
                  raised |-> FALSE]
        ELSE [quiet EXCEPT !.calls = 1, !.notifications = <<"failure">>]

\* refresh_instagram_token: the store and file afterwards, the refresh requests made to
\* the platform, the calls of _send_telegram in order, the calls of _save_token_store,
\* and whether an exception leaves the function
refresh_instagram_token(store, file, persona_id, answer, disk_ok, t) ==
    LET quiet == [store |-> store, file |-> file, calls |-> 0, notifications |-> <<>>,
                  flushes |-> 0, raised |-> FALSE]
    IN  IF ~HasKey(store, persona_id)
        THEN quiet
        ELSE IF Info(store, persona_id).access_token = NoToken
        THEN [quiet EXCEPT !.notifications = <<"failure">>]
        ELSE IF answer = "ok"
        THEN LET refreshed == Put(store, persona_id,
                                  UpdateInfo(Info(store, persona_id),
                                             [access_token |-> REFRESHED_TOKEN,
                                              refreshed_at |-> t,
                                              expires_in |-> DEFAULT_EXPIRES_IN]))
             IN  [store |-> refreshed,
                  file |-> save_token_store(file, refreshed, disk_ok),
                  calls |-> 1, notifications |-> <<"success">>, flushes |-> 1,
                  raised |-> FALSE]
        ELSE [quiet EXCEPT !.calls = 1, !.notifications = <<"failure">>]

\* The scheduler running the refresh job of a persona
run_refresh(persona_id, answer, disk_ok) ==
    /\ up
    /\ persona_id \in TimerIds(refresh_jobs)
    /\ LET r == refresh_instagram_token(token_store, token_file, persona_id, answer,
                                        disk_ok, now)
       IN  /\ token_store' = r.store
           /\ token_file' = r.file
           /\ resp' = [op |-> "refresh", persona_id |-> persona_id, status |-> 0,
                       answer |-> answer, disk_ok |-> disk_ok,
                       had_connection |-> HasKey(token_store, persona_id),
                       store_before |-> token_store, file_before |-> token_file,
                       calls |-> r.calls, notifications |-> r.notifications,
                       flushes |-> r.flushes, raised |-> r.raised, at |-> now]
    /\ UNCHANGED <<refresh_jobs, schedVars, clockVars, taskVars, replyVars>>

(* refresh_instagram_token statement by statement.  The refresh job runs on a thread
   of the BackgroundScheduler, so the event loop handles requests between any two of
   its statements; run_refresh above is the same function with no request in between. *)

\* info = _token_store.get(persona_id) and access_token = info.get("access_token"); the
\* function returns at once when either is missing
refresh_begin(persona_id) ==
    /\ up
    /\ renewing = Idle
    /\ persona_id \in TimerIds(refresh_jobs)
    /\ HasKey(token_store, persona_id)
    /\ Info(token_store, persona_id).access_token # NoToken
    /\ renewing' = [pc |-> "requesting", persona_id |-> persona_id,
                    access_token |-> Info(token_store, persona_id).access_token]
    /\ UNCHANGED <<credVars, schedVars, clockVars, replyVars, send_queue, resp>>

\* requests.get(refresh_access_token) returns: any answer but a new token raises into
\* the except clause, which notifies and ends the function
refresh_response(answer) ==
    /\ up
    /\ renewing.pc = "requesting"
    /\ renewing' = IF answer = "ok"
                   THEN [pc |-> "set_access_token", persona_id |-> renewing.persona_id,
                         access_token |-> renewing.access_token,
                         new_token |-> REFRESHED_TOKEN, expires_in |-> DEFAULT_EXPIRES_IN]
                   ELSE Idle
    /\ UNCHANGED <<credVars, schedVars, clockVars, replyVars, send_queue, resp>>

\* the statement after an assignment of the renewal
NextStatement(pc) ==
    CASE pc = "set_access_token" -> "set_refreshed_at"
      [] pc = "set_refreshed_at" -> "set_expires_in"
      [] pc = "set_expires_in" -> "dumps"

\* _token_store[persona_id][key] = value, one of the three assignments: the subscript
\* _token_store[persona_id] raises KeyError when the key has gone, which the except
\* clause turns into a failure notification
refresh_assign ==
    /\ up
    /\ renewing.pc \in {"set_access_token", "set_refreshed_at", "set_expires_in"}
    /\ IF ~HasKey(token_store, renewing.persona_id)
       THEN /\ renewing' = Idle
            /\ UNCHANGED token_store
       ELSE LET info == Info(token_store, renewing.persona_id)
                updated ==
                    CASE renewing.pc = "set_access_token" ->
                             UpdateInfo(info, [access_token |-> renewing.new_token])
                      [] renewing.pc = "set_refreshed_at" ->
                             UpdateInfo(info, [refreshed_at |-> now])
                      [] renewing.pc = "set_expires_in" ->
                             UpdateInfo(info, [expires_in |-> renewing.expires_in])
            IN  /\ token_store' = Put(token_store, renewing.persona_id, updated)
                /\ renewing' = [renewing EXCEPT !.pc = NextStatement(renewing.pc)]
    /\ UNCHANGED <<token_file, refresh_jobs, schedVars, clockVars, replyVars, send_queue,
                   resp>>

\* _save_token_store: json.dumps(_token_store) builds the text of the whole store
refresh_dumps ==
    /\ up
    /\ renewing.pc = "dumps"
    /\ renewing' = [pc |-> "write_text", persona_id |-> renewing.persona_id,
                    text |-> token_store]
    /\ UNCHANGED <<credVars, schedVars, clockVars, replyVars, send_queue, resp>>

\* _save_token_store: _TOKEN_FILE.write_text(text); a failing write is logged.  The
\* success notification follows and the function ends.
refresh_write_text(disk_ok) ==
    /\ up
    /\ renewing.pc = "write_text"
    /\ token_file' = save_token_store(token_file, renewing.text, disk_ok)
    /\ renewing' = Idle
    /\ UNCHANGED <<token_store, refresh_jobs, schedVars, clockVars, replyVars, send_queue,
                   resp>>

-----------------------------------------------------------------------------
(* Publish pipeline: instagram_service.py *)

GRAPH_URL == "graph.facebook.com"
IG_GRAPH_URL == "graph.instagram.com"

\* _api_base
api_base(access_token) ==
    IF StartsWith(access_token, <<"IGAA">>) THEN IG_GRAPH_URL ELSE GRAPH_URL

EndsWith(s, suffix) ==
    /\ Len(suffix) <= Len(s)
    /\ SubSeq(s, Len(s) - Len(suffix) + 1, Len(s)) = suffix

\* image urls: a stem and the extension, lower-cased
JpgUrl == <<"https://cdn/a", ".jpg">>
WebpUrl == <<"https://cdn/b", ".webp">>
CdnUrl == <<"https://tmpfiles.org/dl/1", ".jpg">>
DataUrl == <<"data:image/jpeg;base64">>

\* _ensure_jpeg_url.  env.head is the Content-Type the HEAD request reports ("error":
\* the request raised); env.convert is how the conversion goes.  url = <<>>: RuntimeError.
ensure_jpeg_url(image_url, env) ==
    IF env.head = "error"
    THEN [url |-> image_url, exc |-> "none"]             \* logged, the url is used as is
    ELSE IF env.head = "image/webp" \/ EndsWith(image_url, <<".webp">>)
    THEN CASE env.convert = "uploaded"      -> [url |-> CdnUrl, exc |-> "none"]
           [] env.convert = "upload_error"  -> [url |-> DataUrl, exc |-> "none"]
           [] env.convert = "no_pillow"     -> [url |-> <<>>, exc |-> "RuntimeError"]
           [] OTHER                         -> [url |-> image_url, exc |-> "none"]
                \* download or decoding raised, or the upload answered without "success"
    ELSE [url |-> image_url, exc |-> "none"]

\* upload_photo: the platform calls made and the creation id ("" with exc set when it raises)
upload_photo(ig_account_id, image_url, caption, access_token, env) ==
    LET jpeg == ensure_jpeg_url(image_url, env)
        call == [call |-> "create", base |-> api_base(access_token), account |-> ig_account_id,
                 image_url |-> jpeg.url, access_token |-> access_token]
    IN  IF jpeg.exc # "none"
        THEN [calls |-> <<>>, creation_id |-> "", exc |-> "UnsupportedFormat"]
        ELSE CASE env.create = "ok"    -> [calls |-> <<call>>, creation_id |-> "creation_1", exc |-> "none"]
               [] env.create \in {"4xx", "429"}
                                       -> [calls |-> <<call>>, creation_id |-> "", exc |-> "MetaApiError"]
               [] env.create = "no_id" -> [calls |-> <<call>>, creation_id |-> "", exc |-> "UploadFailed"]
               [] OTHER                -> [calls |-> <<call>>, creation_id |-> "", exc |-> "HTTPError"]

POLL_INTERVAL == 3
DEFAULT_MAX_WAIT == 30

\* the status the attempt-th status check reports: IN_PROGRESS before env.poll_at
PollStatus(env, attempt) ==
    IF attempt < env.poll_at THEN "IN_PROGRESS" ELSE env.poll

\* wait_for_container with the loop bound one too large
RECURSIVE wait_for_container_one_more(_, _, _)
wait_for_container_one_more(env, max_wait, attempt) ==
    IF attempt > max_wait \div POLL_INTERVAL + 1
    THEN [polls |-> attempt - 1, exc |-> "NotReady"]
    ELSE LET status_code == PollStatus(env, attempt)
         IN  CASE status_code = "HTTP_ERROR" -> [polls |-> attempt, exc |-> "HTTPError"]
               [] status_code = "FINISHED"   -> [polls |-> attempt, exc |-> "none"]
               [] status_code = "ERROR"      -> [polls |-> attempt, exc |-> "ContainerError"]
               [] OTHER -> wait_for_container_one_more(env, max_wait, attempt + 1)

\* wait_for_container from the attempt-th check on: the number of checks made and the outcome
RECURSIVE wait_for_container(_, _, _)
wait_for_container(env, max_wait, attempt) ==
    IF attempt > max_wait \div POLL_INTERVAL
    THEN [polls |-> attempt - 1, exc |-> "NotReady"]
    ELSE LET status_code == PollStatus(env, attempt)
         IN  CASE status_code = "HTTP_ERROR" -> [polls |-> attempt, exc |-> "HTTPError"]
               [] status_code = "FINISHED"   -> [polls |-> attempt, exc |-> "none"]
               [] status_code = "ERROR"      -> [polls |-> attempt, exc |-> "ContainerError"]
               [] OTHER                      -> wait_for_container(env, max_wait, attempt + 1)

\* publish_media that commits without waiting for the container
publish_media_no_wait(ig_account_id, creation_id, access_token, env) ==
    LET commit == [call |-> "publish", base |-> api_base(access_token), account |-> ig_account_id,
                   image_url |-> <<>>, access_token |-> access_token]
    IN  CASE env.commit = "ok"    -> [calls |-> <<commit>>, media_id |-> "media_1", exc |-> "none"]
          [] env.commit = "no_id" -> [calls |-> <<commit>>, media_id |-> "", exc |-> "PublishFailed"]
          [] OTHER                -> [calls |-> <<commit>>, media_id |-> "", exc |-> "HTTPError"]

\* publish_media
publish_media(ig_account_id, creation_id, access_token, env) ==
    LET w == wait_for_container(env, DEFAULT_MAX_WAIT, 1)
        polls == [i \in 1..w.polls |->
                     [call |-> "poll", base |-> api_base(access_token), account |-> ig_account_id,
                      image_url |-> <<>>, access_token |-> access_token]]
        commit == [call |-> "publish", base |-> api_base(access_token), account |-> ig_account_id,
                   image_url |-> <<>>, access_token |-> access_token]
    IN  IF w.exc # "none"
        THEN [calls |-> polls, media_id |-> "", exc |-> w.exc]
        ELSE CASE env.commit = "ok"    -> [calls |-> Append(polls, commit), media_id |-> "media_1", exc |-> "none"]
               [] env.commit = "no_id" -> [calls |-> Append(polls, commit), media_id |-> "", exc |-> "PublishFailed"]
               [] OTHER                -> [calls |-> Append(polls, commit), media_id |-> "", exc |-> "HTTPError"]

\* _execute_publish falling back on the token of the environment for a persona that
\* has no connection
execute_publish_env_fallback(store, persona_id, image_url, caption, env) ==
    LET info == IF HasKey(store, persona_id)
                THEN Info(store, persona_id)
                ELSE [access_token |-> ENV_ACCESS_TOKEN, ig_account_id |-> persona_id]
        up1 == upload_photo(info.ig_account_id, image_url, caption, info.access_token, env)
        pub == publish_media(info.ig_account_id, up1.creation_id, info.access_token, env)
    IN  IF up1.exc # "none"
        THEN [calls |-> up1.calls, media_id |-> "", exc |-> up1.exc, persona_id |-> persona_id]
        ELSE [calls |-> up1.calls \o pub.calls, media_id |-> pub.media_id, exc |-> pub.exc,
              persona_id |-> persona_id]

\* _execute_publish (with _require_token): the platform calls made, in order, and the
\* media id, or the exception raised
execute_publish(store, persona_id, image_url, caption, env) ==
    IF ~HasKey(store, persona_id)
    THEN [calls |-> <<>>, media_id |-> "", exc |-> "NotConnected", persona_id |-> persona_id]
    ELSE LET info == Info(store, persona_id)
             up1 == upload_photo(info.ig_account_id, image_url, caption, info.access_token, env)
             pub == publish_media(info.ig_account_id, up1.creation_id, info.access_token, env)
         IN  IF up1.exc # "none"
             THEN [calls |-> up1.calls, media_id |-> "", exc |-> up1.exc, persona_id |-> persona_id]
             ELSE [calls |-> up1.calls \o pub.calls, media_id |-> pub.media_id, exc |-> pub.exc,
                   persona_id |-> persona_id]

\* what the platform and the image host do during one publish
PlatformEnvs ==
    [head : {"image/jpeg"}, convert : {"uploaded"}, create : {"ok", "4xx"},
     poll : {"FINISHED"}, poll_at : {1}, commit : {"ok"}]

ImageUrls == {JpgUrl}
Captions == {<<"c">>}

\* POST /publish-now without the connection check
publish_now_unchecked(persona_id, image_url, caption, env) ==
    /\ up
    /\ LET r == execute_publish(token_store, persona_id, image_url, caption, env)
       IN  resp' = [op |-> "publish_now", persona_id |-> persona_id,
                    status |-> IF r.exc = "none" THEN 200 ELSE 500,
                    detail_persona_id |-> persona_id, calls |-> r.calls,
                    had_connection |-> HasKey(token_store, persona_id), env |-> env,
                    image_url |-> image_url, media_id |-> r.media_id, exc |-> r.exc]
    /\ UNCHANGED <<credVars, schedVars, clockVars, taskVars, replyVars>>

\* POST /publish-now
publish_now(persona_id, image_url, caption, env) ==
    /\ up
    /\ LET status == get_connection_status(persona_id)
           r == execute_publish(token_store, persona_id, image_url, caption, env)
       IN  resp' = IF ~status.connected
                   THEN [op |-> "publish_now", persona_id |-> persona_id, status |-> 400,
                         detail_persona_id |-> persona_id, calls |-> <<>>,
                         had_connection |-> HasKey(token_store, persona_id), env |-> env,
                         image_url |-> image_url, media_id |-> "", exc |-> "NotConnected"]
                   ELSE [op |-> "publish_now", persona_id |-> persona_id,
                         status |-> IF r.exc = "none" THEN 200 ELSE 500,
                         detail_persona_id |-> persona_id, calls |-> r.calls,
                         had_connection |-> HasKey(token_store, persona_id), env |-> env,
                         image_url |-> image_url, media_id |-> r.media_id, exc |-> r.exc]
    /\ UNCHANGED <<credVars, schedVars, clockVars, taskVars, replyVars>>

\* a call of wait_for_container(creation_id, access_token, max_wait) on its own, as the
\* unit tests make it: the number of status checks and the outcome
call_wait_for_container(max_wait, env) ==
    /\ up
    /\ LET w == wait_for_container(env, max_wait, 1)
       IN  resp' = [op |-> "wait", max_wait |-> max_wait, env |-> env,
                    polls |-> w.polls, exc |-> w.exc]
    /\ UNCHANGED <<credVars, schedVars, clockVars, taskVars, replyVars>>

-----------------------------------------------------------------------------
(* Scheduler: instagram_service.py over APScheduler's BackgroundScheduler with a
   durable SQLAlchemy job store *)

MISFIRE_GRACE_TIME == 300
SECONDS_PER_MINUTE == 60

UuidJob(n) == [kind |-> "uuid", n |-> n, persona_id |-> NoId]
RefreshJob(p) == [kind |-> "ig_token_refresh", n |-> 0, persona_id |-> p]

\* a datetime: wall-clock seconds and tzinfo ("naive": none)
Wall(t, tz) == [t |-> t, tz |-> tz]

\* publish_at.replace(tzinfo=timezone.utc) for a naive datetime
AsUtc(publish_at) == IF publish_at.tz = "naive" THEN Wall(publish_at.t, "utc") ELSE publish_at

\* datetime.now(timezone.utc).replace(second=0, microsecond=0)
MinuteFloor(t) == Wall((t \div SECONDS_PER_MINUTE) * SECONDS_PER_MINUTE, "utc")

\* schedule_post naming the job "<caption[:30]>:<persona_id>"
schedule_post_caption_first(js, job_n, persona_id, ig_account_id, image_url, caption, publish_at, access_token) ==
    [n \in DOMAIN js \cup {job_n} |->
        IF n = job_n
        THEN [persona_id |-> persona_id,
              image_url |-> image_url,
              caption |-> caption,
              run_date |-> AsUtc(publish_at).t,
              name |-> Prefix(caption, 30) \o <<":">> \o persona_id,
              misfire_grace_time |-> MISFIRE_GRACE_TIME]
        ELSE js[n]]

\* schedule_post: the job stored under a fresh id
schedule_post(js, job_n, persona_id, ig_account_id, image_url, caption, publish_at, access_token) ==
    [n \in DOMAIN js \cup {job_n} |->
        IF n = job_n
        THEN [persona_id |-> persona_id,
              image_url |-> image_url,
              caption |-> caption,
              run_date |-> AsUtc(publish_at).t,
              name |-> persona_id \o <<":">> \o Prefix(caption, 30),
              misfire_grace_time |-> MISFIRE_GRACE_TIME]
        ELSE js[n]]

RefreshJobName(p) == <<"IG token refresh (">> \o p \o <<")">>

\* get_scheduled_posts: the jobs of the store, renewal timers included, whose name
\* starts with "<persona_id>:"
get_scheduled_posts(js, timers, persona_id) ==
    {UuidJob(n) : n \in {m \in DOMAIN js : StartsWith(js[m].name, persona_id \o <<":">>)}}
    \cup
    {RefreshJob(p) : p \in {q \in TimerIds(timers) : StartsWith(RefreshJobName(q), persona_id \o <<":">>)}}

\* the validity test with a strict comparison
RejectsPublishAt_strict(publish_at, t) == AsUtc(publish_at).t < MinuteFloor(t).t

\* the validity test of create_schedule on one post: TRUE when the post is rejected
RejectsPublishAt(publish_at, t) == AsUtc(publish_at).t <= MinuteFloor(t).t

\* the loop of create_schedule from the i-th post on; st = [jobs, next, scheduled, error]
RECURSIVE schedule_posts(_, _, _, _, _, _, _)
schedule_posts(st, persona_id, ig_account_id, access_token, posts, i, t) ==
    IF i > Len(posts) \/ st.error
    THEN st
    ELSE IF RejectsPublishAt(posts[i].publish_at, t)
    THEN [st EXCEPT !.error = TRUE]
    ELSE schedule_posts(
             [jobs |-> schedule_post(st.jobs, st.next + 1, persona_id, ig_account_id,
                                     posts[i].image_url, posts[i].caption,
                                     posts[i].publish_at, access_token),
              next |-> st.next + 1,
              scheduled |-> Append(st.scheduled,
                                   [job_id |-> UuidJob(st.next + 1),
                                    publish_at |-> AsUtc(posts[i].publish_at)]),
              error |-> FALSE],
             persona_id, ig_account_id, access_token, posts, i + 1, t)

\* POST /schedule
create_schedule(persona_id, ig_account_id, posts) ==
    /\ up
    /\ next_job + Len(posts) <= MaxJobs
    /\ LET status == get_connection_status(persona_id)
           had == HasKey(token_store, persona_id)
       IN  IF ~status.connected
           THEN /\ resp' = [op |-> "schedule", persona_id |-> persona_id, status |-> 400,
                            detail_persona_id |-> persona_id, posts |-> posts,
                            scheduled |-> <<>>, had_connection |-> had, at |-> now,
                            jobs_before |-> DOMAIN jobs]
                /\ UNCHANGED <<jobs, next_job>>
           ELSE LET account == IF ig_account_id # NoId THEN ig_account_id
                               ELSE status.ig_account_id
                    st == schedule_posts([jobs |-> jobs, next |-> next_job,
                                          scheduled |-> <<>>, error |-> FALSE],
                                         persona_id, account,
                                         Info(token_store, persona_id).access_token,
                                         posts, 1, now)
                IN  /\ jobs' = st.jobs
                    /\ next_job' = st.next
                    /\ resp' = [op |-> "schedule", persona_id |-> persona_id,
                                status |-> IF st.error THEN 400 ELSE 201,
                                detail_persona_id |-> NoId, posts |-> posts,
                                scheduled |-> IF st.error THEN <<>> ELSE st.scheduled,
                                had_connection |-> had, at |-> now,
                                jobs_before |-> DOMAIN jobs]
    /\ UNCHANGED <<credVars, executing, fired, missed, cancelled, publish_log, clockVars, taskVars, replyVars>>

\* GET /schedule
list_schedule(persona_id) ==
    /\ up
    /\ resp' = [op |-> "list", persona_id |-> persona_id, status |-> 200,
                scheduled_posts |-> get_scheduled_posts(jobs, refresh_jobs, persona_id)]
    /\ UNCHANGED <<credVars, schedVars, clockVars, taskVars, replyVars>>

\* cancel_scheduled_post answering True for an id the store does not hold
cancel_scheduled_post_always_true(js, timers, job_id) ==
    IF job_id.kind = "uuid"
    THEN [jobs |-> [n \in DOMAIN js \ {job_id.n} |-> js[n]], timers |-> timers, removed |-> TRUE]
    ELSE [jobs |-> js, timers |-> RemoveTimer(timers, job_id.persona_id), removed |-> TRUE]

\* cancel_scheduled_post: _scheduler.remove_job raises JobLookupError for an id the
\* store does not hold, which is turned into False
cancel_scheduled_post(js, timers, job_id) ==
    IF job_id.kind = "uuid" /\ job_id.n \in DOMAIN js
    THEN [jobs |-> [n \in DOMAIN js \ {job_id.n} |-> js[n]], timers |-> timers, removed |-> TRUE]
    ELSE IF job_id.kind = "ig_token_refresh" /\ job_id.persona_id \in TimerIds(timers)
    THEN [jobs |-> js, timers |-> RemoveTimer(timers, job_id.persona_id), removed |-> TRUE]
    ELSE [jobs |-> js, timers |-> timers, removed |-> FALSE]

\* DELETE /schedule/{job_id}
cancel_schedule(job_id) ==
    /\ up
    /\ LET r == cancel_scheduled_post(jobs, refresh_jobs, job_id)
       IN  /\ jobs' = r.jobs
           /\ refresh_jobs' = r.timers
           /\ cancelled' = IF r.removed /\ job_id.kind = "uuid"
                           THEN cancelled \cup {job_id.n} ELSE cancelled
           /\ resp' = [op |-> "cancel", job_id |-> job_id,
                       status |-> IF r.removed THEN 200 ELSE 404,
                       cancelled |-> r.removed,
                       was_scheduled |-> job_id.kind = "uuid" /\ job_id.n \in DOMAIN jobs,
                       was_cancelled |-> job_id.kind = "uuid" /\ job_id.n \in cancelled,
                       was_fired |-> job_id.kind = "uuid" /\ job_id.n \in fired \cup missed]
    /\ UNCHANGED <<token_store, token_file, next_job, executing, fired, missed, publish_log,
                   clockVars, taskVars, replyVars>>

\* the scheduler thread submitting a due job without removing it from the store
fire_job_keeps_job(n) ==
    /\ up
    /\ n \in DOMAIN jobs
    /\ jobs[n].run_date <= now
    /\ n \notin fired \cup missed
    /\ IF now - jobs[n].run_date > jobs[n].misfire_grace_time
       THEN /\ missed' = missed \cup {n}
            /\ UNCHANGED <<executing, fired>>
       ELSE /\ fired' = fired \cup {n}
            /\ executing' = executing \cup {[job |-> n, args |-> jobs[n]]}
            /\ UNCHANGED missed
    /\ UNCHANGED <<credVars, jobs, next_job, cancelled, publish_log, clockVars, taskVars, replyVars, resp>>

\* fire_job without the misfire check: a due job is run however late it is
fire_job_ignores_grace(n) ==
    /\ up
    /\ n \in DOMAIN jobs
    /\ jobs[n].run_date <= now
    /\ jobs' = [m \in DOMAIN jobs \ {n} |-> jobs[m]]
    /\ fired' = fired \cup {n}
    /\ executing' = executing \cup {[job |-> n, args |-> jobs[n]]}
    /\ UNCHANGED <<credVars, next_job, missed, cancelled, publish_log, clockVars, taskVars, replyVars, resp>>

\* The scheduler thread processing a due job (under the job-store lock that remove_job
\* also takes): the job is submitted to the executor and, a date trigger having no
\* further run time, removed from the store.  A job later than its misfire grace time
\* is not run.
fire_job(n) ==
    /\ up
    /\ n \in DOMAIN jobs
    /\ jobs[n].run_date <= now
    /\ jobs' = [m \in DOMAIN jobs \ {n} |-> jobs[m]]
    /\ IF now - jobs[n].run_date > jobs[n].misfire_grace_time
       THEN /\ missed' = missed \cup {n}
            /\ UNCHANGED <<executing, fired>>
       ELSE /\ fired' = fired \cup {n}
            /\ executing' = executing \cup {[job |-> n, args |-> jobs[n]]}
            /\ UNCHANGED missed
    /\ UNCHANGED <<credVars, next_job, cancelled, publish_log, clockVars, taskVars, replyVars, resp>>

\* run_job with a retry: a publish that failed puts the job back into the store
run_job_retries(e, env) ==
    /\ up
    /\ e \in executing
    /\ executing' = executing \ {e}
    /\ LET r == execute_publish(token_store, e.args.persona_id, e.args.image_url,
                                e.args.caption, env)
       IN  /\ publish_log' = publish_log \cup {[job |-> e.job, calls |-> r.calls, exc |-> r.exc]}
           /\ jobs' = IF r.exc = "none"
                      THEN jobs
                      ELSE [m \in DOMAIN jobs \cup {e.job} |->
                               IF m = e.job THEN e.args ELSE jobs[m]]
    /\ UNCHANGED <<credVars, next_job, fired, missed, cancelled, clockVars, taskVars, replyVars, resp>>

\* An executor thread running _execute_publish for a submitted job; an exception is
\* logged by the executor, the job is gone either way
run_job(e, env) ==
    /\ up
    /\ e \in executing
    /\ executing' = executing \ {e}
    /\ LET r == execute_publish(token_store, e.args.persona_id, e.args.image_url,
                                e.args.caption, env)
       IN  publish_log' = publish_log \cup {[job |-> e.job, calls |-> r.calls, exc |-> r.exc]}
    /\ UNCHANGED <<credVars, jobs, next_job, fired, missed, cancelled, clockVars, taskVars, replyVars, resp>>

-----------------------------------------------------------------------------
(* Time and the process *)

ClockSteps == {30, 300}

\* Time passes.  While the process runs, the scheduler wakes up at each run date and
\* the executor runs what was submitted, so no due job is left behind.
advance(d) ==
    /\ now <= MaxTime
    /\ up => /\ executing = {}
             /\ \A n \in DOMAIN jobs : jobs[n].run_date >= now + d
    /\ now' = now + d
    /\ UNCHANGED <<credVars, schedVars, up, replyVars, taskVars, resp>>

\* what the history variable holds after a stop and after a start of the process
DownResp == [op |-> "down", status |-> 0]
StartResp == [op |-> "start", status |-> 0]

\* The process stops: what lives in memory only is lost
crash ==
    /\ up
    /\ up' = FALSE
    /\ token_store' = <<>>
    /\ executing' = {}
    /\ pending_replies' = <<>>
    /\ auto_reply_settings' = <<>>
    /\ send_queue' = <<>>
    /\ renewing' = Idle
    /\ resp' = DownResp
    /\ UNCHANGED <<token_file, refresh_jobs, jobs, next_job, fired, missed, cancelled,
                   publish_log, now, reply_calls>>

\* _load_token_store, _init_env_token and start_scheduler
start ==
    /\ ~up
    /\ up' = TRUE
    /\ token_store' = init_env_token(token_file)
    /\ refresh_jobs' = schedule_token_refresh_jobs(refresh_jobs, init_env_token(token_file))
    /\ resp' = StartResp
    /\ UNCHANGED <<token_file, schedVars, now, replyVars, taskVars>>

-----------------------------------------------------------------------------
(* Specifications *)

Init ==
    /\ token_store = <<>>
    /\ token_file = <<>>
    /\ refresh_jobs = <<>>
    /\ jobs = <<>>
    /\ next_job = 0
    /\ executing = {}
    /\ fired = {}
    /\ missed = {}
    /\ cancelled = {}
    /\ publish_log = {}
    /\ now = 0
    /\ up = TRUE
    /\ pending_replies = <<>>
    /\ auto_reply_settings = <<>>
    /\ reply_calls = {}
    /\ send_queue = <<>>
    /\ renewing = Idle
    /\ resp = StartResp

\* Interaction engine
NextInteract ==
    \/ \E payload \in Payloads : instagram_webhook("valid", TRUE, payload)
    \/ \E sig \in Signatures \ {"valid"} :
           instagram_webhook(sig, TRUE, HelloPayload)
    \/ instagram_webhook("valid", FALSE, <<>>)
    \/ \E r \in 1..MaxDrafts + 1, p \in {A1, DEMO}, ok \in BOOLEAN :
           (p = DEMO => ok) /\ api_send_reply(r, p, ok)
    \/ \E r \in 1..MaxDrafts + 1 : api_dismiss_reply(r)
    \/ \E p \in {A1, DEMO}, m \in Modes \cup {"always"} :
           (p = DEMO => m = "auto") /\ update_settings(p, m)
    \/ \E p \in {A1, DEMO} : get_settings(p)
    \/ connect_with_token(P1, <<"T">>, A1, "h", NoLookup, TRUE)
    \/ \E p \in {A1} : disconnect(p)

SpecInteract == Init /\ [][NextInteract]_vars

\* Scheduler
PublishOffsets == {-30, -10, 30}
PublishAts(t) == {Wall(t + d, "utc") : d \in PublishOffsets} \cup {Wall(t + 30, "naive")}
Posts(t) == [image_url : ImageUrls, caption : Captions, publish_at : PublishAts(t)]
PostLists(t) ==
    {<<post>> : post \in Posts(t)}
    \cup UNION {[1..n -> {post \in Posts(t) : post.publish_at.tz = "utc" /\ post.publish_at.t >= t}]
                  : n \in 2..MaxPosts}
    \cup {<<good, late>> : good \in {post \in Posts(t) : post.publish_at = Wall(t + 30, "utc")},
                            late \in {post \in Posts(t) : post.publish_at = Wall(t - 30, "utc")}}
CancelIds == {UuidJob(n) : n \in 1..MaxJobs}

NextSched ==
    \/ \E p \in {P1, A1}, posts \in PostLists(now) : create_schedule(p, NoId, posts)
    \/ \E p \in {P1, A1} : list_schedule(p)
    \/ \E j \in CancelIds : cancel_schedule(j)
    \/ \E p \in {P1, A1}, env \in PlatformEnvs : publish_now(p, JpgUrl, <<"c">>, env)
    \/ \E p \in {P1, A1} : get_status(p)
    \/ \E given \in {<<A1, "h">>, <<NoId, "">>}, net \in NetLookups :
           connect_with_token(P1, <<"T">>, given[1], given[2], net, TRUE)
    \/ \E p \in {P1, A1} : disconnect(p)
    \/ \E n \in 1..MaxJobs : fire_job(n)
    \/ \E e \in executing, env \in {x \in PlatformEnvs : x.create = "ok"} : run_job(e, env)
    \/ \E d \in ClockSteps : advance(d)
    \/ crash
    \/ start

SpecSched == Init /\ [][NextSched]_vars

\* Credential lifecycle
ConnectTokens == {<<"T">>, <<"T", "2">>}
ConnectNets == {[ig_me |-> NoId, fb_pages |-> NoId, fb_me |-> x, username |-> "h", env_user_id |-> ENV_USER_ID] : x \in {NoId, A1}}
ExchangeNets == {[ig_me |-> x, fb_pages |-> NoId, fb_me |-> NoId, username |-> "h", env_user_id |-> ENV_USER_ID] : x \in {NoId, A1}}
PublishEnvs ==
    [head : {"image/jpeg"}, convert : {"uploaded"}, create : {"ok", "429"},
     poll : {"FINISHED"}, poll_at : {1}, commit : {"ok", "error"}]

NextCred ==
    \/ \E tok \in ConnectTokens, given \in {<<A1, "h">>, <<NoId, "">>}, net \in ConnectNets :
           connect_with_token(P1, tok, given[1], given[2], net, TRUE)
    \/ \E oauth \in OauthAnswers, net \in ExchangeNets : exchange_code(P1, oauth, net)
    \/ \E p \in {P1, A1} : disconnect(p)
    \/ \E p \in {P1, A1} : get_status(p)
    \/ \E p \in {P1, A1}, answer \in RefreshAnswers, disk_ok \in BOOLEAN :
           (answer # "ok" => disk_ok) /\ run_refresh(p, answer, disk_ok)
    \/ \E p \in {P1, A1} : cancel_schedule(RefreshJob(p))
    \/ crash
    \/ start

SpecCred == Init /\ [][NextCred]_vars

\* Renewal and publish under a stored credential, with time passing
NextRenew ==
    \/ connect_with_token(P1, <<"T">>, A1, "h", NoLookup, TRUE)
    \/ exchange_code(P1, "ok", LookupA1)
    \/ \E p \in {P1, A1} : disconnect(p)
    \/ \E p \in {P1, A1}, answer \in RefreshAnswers, disk_ok \in BOOLEAN :
           (answer # "ok" => disk_ok) /\ run_refresh(p, answer, disk_ok)
    \/ \E p \in {P1, A1}, env \in PublishEnvs : publish_now(p, JpgUrl, <<"c">>, env)
    \/ advance(300)

SpecRenew == Init /\ [][NextRenew]_vars

\* The list of scheduled posts, for two personas of which one has the other's id and a
\* colon at the start of its own
NextList ==
    \/ \E p \in {P1, P1X} : exchange_code(p, "ok", LookupA1)
    \/ \E p \in {P1, P1X}, post \in {q \in Posts(now) : q.publish_at = Wall(now + 30, "utc")} :
           create_schedule(p, NoId, <<post>>)
    \/ \E p \in {P1, P1X} : list_schedule(p)
    \/ \E j \in CancelIds : cancel_schedule(j)
    \/ \E n \in 1..MaxJobs : fire_job(n)
    \/ advance(30)

SpecList == Init /\ [][NextList]_vars

\* A scheduled job from its creation to its run, the credential of its persona changing
\* in between
NextFire ==
    \/ connect_with_token(P1, <<"T">>, A1, "h", NoLookup, TRUE)
    \/ \E post \in {q \in Posts(now) : q.publish_at = Wall(now + 30, "utc")} :
           create_schedule(A1, NoId, <<post>>)
    \/ run_refresh(A1, "ok", TRUE)
    \/ disconnect(A1)
    \/ \E n \in 1..MaxJobs : fire_job(n)
    \/ \E e \in executing, env \in {x \in PlatformEnvs : x.create = "ok"} : run_job(e, env)
    \/ advance(30)

SpecFire == Init /\ [][NextFire]_vars

\* Send requests that overlap: several wait for the event loop at once, next to the
\* webhook and its automatic dispatch

\* a delivery of one harmless comment whose reply the platform refuses
RefusedPayload == <<Comment(A1, <<"ni", "hao">>, FALSE)>>

NextOverlap ==
    \/ \E payload \in {HelloPayload, RefusedPayload} : instagram_webhook("valid", TRUE, payload)
    \/ \E r \in 1..MaxDrafts, ok \in BOOLEAN : receive_send(r, A1, ok)
    \/ \E i \in 1..MaxInFlight : run_send(i)
    \/ \E m \in Modes : update_settings(A1, m)
    \/ connect_with_token(P1, <<"T">>, A1, "h", NoLookup, TRUE)

SpecOverlap == Init /\ [][NextOverlap]_vars

\* A renewal running on the scheduler's thread while the event loop connects and
\* disconnects
NextRace ==
    \/ connect_with_token(P1, <<"T">>, A1, "h", NoLookup, TRUE)
    \/ exchange_code(P1, "ok", LookupA1)
    \/ \E p \in {P1, A1} : disconnect(p)
    \/ \E p \in {P1, A1} : refresh_begin(p)
    \/ \E answer \in RefreshAnswers : refresh_response(answer)
    \/ refresh_assign
    \/ refresh_dumps
    \/ \E disk_ok \in BOOLEAN : refresh_write_text(disk_ok)

SpecRace == Init /\ [][NextRace]_vars

\* The publish pipeline against every behaviour of the image host and of the platform
MaxWait == 12
MaxPollAt == 5

ContainerEnvs == [poll : {"FINISHED", "ERROR", "IN_PROGRESS", "HTTP_ERROR"}, poll_at : 1..MaxPollAt]

PollAts == {1, 2, DEFAULT_MAX_WAIT \div POLL_INTERVAL, DEFAULT_MAX_WAIT \div POLL_INTERVAL + 1}

\* every behaviour of the image host, the platform answering at once
ImageHostEnvs ==
    [head : {"image/jpeg", "image/webp", "error"},
     convert : {"uploaded", "upload_error", "no_pillow", "failed"},
     create : {"ok"}, poll : {"FINISHED"}, poll_at : {1}, commit : {"ok"}]

\* every behaviour of the platform for an image that needs no conversion
PlatformStepEnvs ==
    [head : {"image/jpeg"}, convert : {"uploaded"},
     create : {"ok", "4xx", "no_id"},
     poll : {"FINISHED", "ERROR", "IN_PROGRESS", "HTTP_ERROR"},
     poll_at : PollAts,
     commit : {"ok", "no_id", "error"}]

NextPublish ==
    \/ \E max_wait \in 0..MaxWait, env \in ContainerEnvs : call_wait_for_container(max_wait, env)
    \/ \E url \in {JpgUrl, WebpUrl}, env \in ImageHostEnvs : publish_now(A1, url, <<"c">>, env)
    \/ \E env \in PlatformStepEnvs : publish_now(A1, JpgUrl, <<"c">>, env)
    \/ connect_with_token(P1, <<"T">>, A1, "h", NoLookup, TRUE)
    \/ disconnect(A1)

SpecPublish == Init /\ [][NextPublish]_vars

\* Persona resolution over stores whose keys are and are not the account ids
NextResolve ==
    \/ \E from_id \in {A1, <<"u", "9">>} :
           instagram_webhook("valid", TRUE, <<Comment(from_id, <<"ni", "hao">>, TRUE)>>)
    \/ connect_with_token(P1, <<"T">>, A1, "h", NoLookup, TRUE)
    \/ \E net \in ExchangeNets : exchange_code(P1, "ok", net)
    \/ \E p \in {A1, P1} : disconnect(p)
    \/ \E p \in {P1, DEMO} : update_settings(p, "auto")

SpecResolve == Init /\ [][NextResolve]_vars

\* The account resolution against every answer of the three platform lookups, with and
\* without an identifier in the environment
ResolveAnswers == {NoId, A1, <<"u", "9">>}

ResolveNets ==
    [ig_me : ResolveAnswers, fb_pages : ResolveAnswers, fb_me : ResolveAnswers,
     username : {"h"}, env_user_id : {NoId, <<"E", "1">>}]

ResolveTokens == {<<"IGAA", "1">>, <<"EAA", "1">>}

NextAccount ==
    \E access_token \in ResolveTokens, net \in ResolveNets :
        call_get_instagram_account_id(access_token, net)

SpecAccount == Init /\ [][NextAccount]_vars

\* The handshake and the risk classifier, in every state of the stores
MaxTextLen == 3

TextSymbols == {"pian", "tui", "kuan", "ni"}

Texts == UNION {[1..n -> TextSymbols] : n \in 0..MaxTextLen}

HubModes == {<<"subscribe">>, <<"unsubscribe">>, Missing}

HubTokens ==
    {WEBHOOK_VERIFY_TOKEN, WEBHOOK_VERIFY_TOKEN \o <<"x">>, <<"virtual_prism">>, <<>>, Missing}

HubChallenges == {<<"c", "1">>, Missing}

NextStateless ==
    \/ \E m \in HubModes, tok \in HubTokens, c \in HubChallenges :
           instagram_webhook_verify(m, tok, c)
    \/ \E text \in Texts : call_check_risk(text)
    \/ connect_with_token(P1, <<"T">>, A1, "h", NoLookup, TRUE)
    \/ disconnect(A1)

SpecStateless == Init /\ [][NextStateless]_vars

Next == NextList \/ NextFire \/ NextOverlap \/ NextRace \/ NextStateless \/ NextAccount \/ NextInteract \/ NextSched \/ NextCred \/ NextRenew \/ NextPublish \/ NextResolve

Spec == Init /\ [][Next]_vars

-----------------------------------------------------------------------------
(* Properties of the interaction engine, under SpecInteract *)

Terminal == {"sent", "dismissed"}

\* C1: a send or dismiss request on a draft that is already sent or dismissed fails
\* and leaves the draft's status as it was.
C1_SecondTransitionFails ==
    (resp.op \in {"send", "dismiss"} /\ resp.before \in Terminal)
        => /\ resp.status # 200
           /\ pending_replies[resp.reply_id].status = resp.before

\* C2: a webhook POST whose signature is missing or wrong is answered 403, creates no
\* ReplyDraft and dispatches no reply.
C2_BadSignatureRejected ==
    (resp.op = "webhook" /\ resp.sig # "valid")
        => /\ resp.status = 403
           /\ Len(pending_replies) = resp.drafts_before
           /\ reply_calls = resp.calls_before

\* the dispatches made to the platform for a draft
CallsFor(reply_id) == {c \in reply_calls : c.reply_id = reply_id}

NeedsReview(c) == c.mode = "draft" \/ c.risk_level = "high" \/ ~c.had_token

\* C3: when the webhook handler ends, every draft it created for a comment whose
\* persona is in draft mode, whose risk is high, or whose persona has no stored token
\* is pending and nothing was dispatched for it.
C3_ReviewCasesStayPending ==
    resp.op = "webhook"
        => \A k \in 1..Len(resp.handled) :
               NeedsReview(resp.handled[k])
                   => /\ pending_replies[resp.handled[k].reply_id].status = "pending"
                      /\ CallsFor(resp.handled[k].reply_id) = {}

\* a high-risk comment of a persona in auto mode with a token was queued
C3_Witness ==
    /\ resp.op = "webhook"
    /\ \E k \in 1..Len(resp.handled) :
           /\ resp.handled[k].mode = "auto"
           /\ resp.handled[k].risk_level = "high"
           /\ resp.handled[k].had_token
           /\ pending_replies[resp.handled[k].reply_id].status = "pending"

AutoSendCase(c) == c.mode = "auto" /\ c.risk_level = "low" /\ c.had_token

\* C4 as stated: in auto mode, at low risk and with a stored token, the draft is sent
\* when the webhook handler ends.
C4_AutoLowAlwaysSent ==
    resp.op = "webhook"
        => \A k \in 1..Len(resp.handled) :
               AutoSendCase(resp.handled[k])
                   => pending_replies[resp.handled[k].reply_id].status = "sent"

\* C4 amended: in auto mode, at low risk and with a stored token, the handler
\* dispatches the draft once, with the persona's token, in the same pass; the draft is
\* sent when the platform accepted the reply and pending when the call failed.
C4_AutoLowSentIfAccepted ==
    resp.op = "webhook"
        => \A k \in 1..Len(resp.handled) :
               LET c == resp.handled[k]
               IN  AutoSendCase(c)
                       => /\ Cardinality(CallsFor(c.reply_id)) = 1
                          /\ \A call \in CallsFor(c.reply_id) :
                                 /\ call.access_token = AccessTokenOf(token_store, c.persona_id)
                                 /\ call.ok = c.platform_ok
                          /\ pending_replies[c.reply_id].status =
                                 IF c.platform_ok THEN "sent" ELSE "pending"

\* the handler sent a draft by itself
C4_Witness ==
    /\ resp.op = "webhook"
    /\ \E k \in 1..Len(resp.handled) :
           /\ AutoSendCase(resp.handled[k])
           /\ pending_replies[resp.handled[k].reply_id].status = "sent"

-----------------------------------------------------------------------------
(* Properties of the scheduler and the publish pipeline, under SpecSched *)

\* the jobs that have left the store
Gone == (1..next_job) \ DOMAIN jobs

\* C5: a cancel racing the firing of the same job has exactly one winner: a job whose
\* cancel returned true is never fired, submitted or published, and a cancel made
\* after the fire returns false.
C5_CancelXorFire ==
    /\ cancelled \cap (fired \cup missed) = {}
    /\ \A n \in Gone : (n \in cancelled) # (n \in fired \cup missed)
    /\ \A e \in executing : e.job \notin cancelled
    /\ \A l \in publish_log : l.job \notin cancelled
    /\ (resp.op = "cancel" /\ resp.was_fired) => ~resp.cancelled

\* a cancel arrived after the job had fired and lost
C5_Witness ==
    /\ resp.op = "cancel"
    /\ resp.job_id.n \in fired
    /\ resp.was_fired
    /\ ~resp.cancelled

\* C6: a cancel answers true exactly when the job is scheduled at that moment: the
\* first cancel of a scheduled job is true, a cancel of a job already cancelled,
\* already fired or never created is false, and no cancel answers an error.
C6_CancelOnce ==
    resp.op = "cancel"
        => /\ resp.cancelled = resp.was_scheduled
           /\ (resp.was_cancelled \/ resp.was_fired) => ~resp.cancelled
           /\ resp.status = IF resp.cancelled THEN 200 ELSE 404
           /\ resp.cancelled => resp.job_id.n \notin DOMAIN jobs

\* the second cancel of one job
C6_Witness ==
    /\ resp.op = "cancel"
    /\ resp.was_cancelled
    /\ ~resp.cancelled
    /\ resp.status = 404

\* the jobs created by the schedule request last answered that are still in the store
NewJobs == DOMAIN jobs \ resp.jobs_before

\* C7 as stated: a schedule request holding a post whose publish_at (naive read as
\* UTC) is not after the instant of the request is answered 400, and no job is created
\* with a run time at or before that instant.
C7_NoRunAtInThePast ==
    resp.op = "schedule" /\ resp.had_connection
        => /\ (\E k \in 1..Len(resp.posts) : resp.posts[k].publish_at.t <= resp.at)
                  => resp.status = 400
           /\ \A n \in NewJobs : jobs[n].run_date > resp.at

\* the start of the minute an instant lies in
StartOfMinute(t) == t - (t % 60)

\* C7 amended: the bound is the start of the current minute: a post whose publish_at
\* (naive read as UTC) is at or before it is answered 400, and no job is created with
\* a run time at or before it.
C7_NoRunAtBeforeTheMinute ==
    resp.op = "schedule" /\ resp.had_connection
        => /\ (\E k \in 1..Len(resp.posts) :
                   resp.posts[k].publish_at.t <= StartOfMinute(resp.at))
                  => resp.status = 400
           /\ \A n \in NewJobs : jobs[n].run_date > StartOfMinute(resp.at)

\* a post in the past was rejected in the middle of a minute
C7_Witness ==
    /\ resp.op = "schedule"
    /\ resp.had_connection
    /\ resp.at % 60 # 0
    /\ \E k \in 1..Len(resp.posts) : resp.posts[k].publish_at.t <= StartOfMinute(resp.at)
    /\ resp.status = 400

AllFuture(r) == \A k \in 1..Len(r.posts) : r.posts[k].publish_at.t > r.at

\* the answer of a schedule request of a connected persona whose posts are all in the
\* future: 201, one job per post in order, each at the instant of its post
ScheduleAnswer ==
    (resp.op = "schedule" /\ resp.had_connection /\ AllFuture(resp))
        => /\ resp.status = 201
           /\ Len(resp.scheduled) = Len(resp.posts)
           /\ \A k \in 1..Len(resp.posts) :
                  /\ resp.scheduled[k].job_id.kind = "uuid"
                  /\ resp.scheduled[k].job_id.n \in (1..next_job) \ resp.jobs_before
                  /\ resp.scheduled[k].publish_at.t = resp.posts[k].publish_at.t
                  /\ resp.scheduled[k].publish_at.tz = "utc"
                  /\ \A i \in 1..Len(resp.posts) :
                         i # k => resp.scheduled[i].job_id # resp.scheduled[k].job_id
                  /\ resp.scheduled[k].job_id.n \in DOMAIN jobs
                         => /\ jobs[resp.scheduled[k].job_id.n].persona_id = resp.persona_id
                            /\ jobs[resp.scheduled[k].job_id.n].run_date
                                   = resp.posts[k].publish_at.t

Listed(n) ==
    /\ n \in DOMAIN jobs
    /\ UuidJob(n) \in get_scheduled_posts(jobs, refresh_jobs, jobs[n].persona_id)

\* C8 as stated: a job leaves the list of its persona only by firing or by being
\* cancelled.
C8_ListedUntilFiredOrCancelled ==
    [][\A n \in DOMAIN jobs :
           n \notin DOMAIN jobs' => (n \in fired' \/ n \in cancelled')]_vars

\* C8 amended: a schedule request of a connected persona with future posts is answered
\* 201 with one job per post at the post's instant, and every job created is in the
\* list of its persona until it fires, is cancelled, or is discarded by the scheduler
\* as a misfire later than its grace time.
C8_ListedUntilFiredCancelledOrMissed ==
    /\ ScheduleAnswer
    /\ \A n \in 1..next_job : n \notin fired \cup cancelled \cup missed => Listed(n)

\* two posts were scheduled by one request and both are listed
C8_Witness ==
    /\ resp.op = "schedule"
    /\ resp.status = 201
    /\ Len(resp.posts) = 2
    /\ \A k \in 1..2 : Listed(resp.scheduled[k].job_id.n)

\* C9: for a persona without a connection the status is not connected, and publish-now
\* and schedule are answered 400 naming the persona, with no platform call and no job.
C9_NoConnectionNoPublish ==
    /\ (resp.op = "status" /\ ~resp.had_connection) => ~resp.connected
    /\ (resp.op = "publish_now" /\ ~resp.had_connection)
           => /\ resp.status = 400
              /\ resp.detail_persona_id = resp.persona_id
              /\ resp.calls = <<>>
    /\ (resp.op = "schedule" /\ ~resp.had_connection)
           => /\ resp.status = 400
              /\ resp.detail_persona_id = resp.persona_id
              /\ resp.scheduled = <<>>
              /\ NewJobs = {}

\* a publish-now request for a persona without a connection, while another persona
\* holds one
C9_Witness ==
    /\ resp.op = "publish_now"
    /\ ~resp.had_connection
    /\ resp.status = 400
    /\ token_store # <<>>

\* C10 as stated: after a direct connect for persona p1, a schedule request for p1
\* with future posts is answered 201.
C10_ScheduleAfterConnect ==
    [][(/\ resp.op = "connect_token" /\ resp.status = 200
        /\ resp'.op = "schedule"
        /\ resp'.persona_id = resp.req_persona_id
        /\ AllFuture(resp'))
           => resp'.status = 201]_vars

\* C10 amended: after a direct connect, a schedule request with one future post for
\* the persona_id that the connect answered is answered 201 with one job; the delete
\* of that job, while it has not fired, answers cancelled true; a second delete of it
\* answers 404.
C10_ConnectScheduleCancel ==
    [][/\ (/\ resp.op = "connect_token" /\ resp.status = 200
           /\ resp'.op = "schedule"
           /\ resp'.persona_id = resp.persona_id
           /\ Len(resp'.posts) = 1
           /\ AllFuture(resp'))
              => (resp'.status = 201 /\ Len(resp'.scheduled) = 1)
       /\ (/\ resp.op = "schedule" /\ resp.status = 201
           /\ resp'.op = "cancel"
           /\ \E k \in 1..Len(resp.scheduled) : resp.scheduled[k].job_id = resp'.job_id
           /\ resp'.job_id.n \notin fired \cup missed)
              => (resp'.status = 200 /\ resp'.cancelled)
       /\ (/\ resp.op = "cancel" /\ resp.cancelled
           /\ resp'.op = "cancel"
           /\ resp' # resp
           /\ resp'.job_id = resp.job_id)
              => (resp'.status = 404 /\ ~resp'.cancelled)]_vars

\* the job scheduled under the persona_id of a direct connect was cancelled, and the
\* persona_id of the request holds no connection
C10_Witness ==
    /\ resp.op = "cancel"
    /\ resp.cancelled
    /\ HasKey(token_store, A1)
    /\ ~HasKey(token_store, P1)
    /\ Info(token_store, A1).ig_username = "h"

-----------------------------------------------------------------------------
(* Properties of the credential lifecycle, under SpecCred and SpecRenew *)

\* the account id the platform lookups resolve a token to (NoId: none)
ResolvedId(access_token, net) ==
    IF StartsWith(access_token, <<"IGAA">>) /\ net.ig_me # NoId THEN net.ig_me
    ELSE IF net.fb_pages # NoId THEN net.fb_pages
    ELSE net.fb_me

\* C11: after a successful direct connect the store holds, under the supplied account
\* id, or under the one resolved from the token when none was supplied, a Connection
\* with exactly the supplied token, that account id and the handle, and the status of
\* that account id reports it.
C11_ConnectStoresUnderAccountId ==
    (resp.op = "connect_token" /\ resp.status = 200)
        => LET key == IF resp.given_ig_user_id # NoId THEN resp.given_ig_user_id
                      ELSE ResolvedId(resp.access_token, resp.net)
               handle == IF resp.given_ig_username # "" THEN resp.given_ig_username
                         ELSE resp.net.username
           IN  /\ key # NoId
               /\ HasKey(token_store, key)
               /\ Info(token_store, key).access_token = resp.access_token
               /\ Info(token_store, key).ig_account_id = key
               /\ Info(token_store, key).ig_username = handle
               /\ get_connection_status(key).connected
               /\ get_connection_status(key).ig_account_id = key
               /\ get_connection_status(key).ig_username = handle
               /\ resp.persona_id = key

\* a second direct connect of one account, its id resolved from the token, replaced
\* the token
C11_Witness ==
    /\ resp.op = "connect_token"
    /\ resp.status = 200
    /\ resp.given_ig_user_id = NoId
    /\ resp.access_token = <<"T", "2">>
    /\ HasKey(token_store, A1)
    /\ Info(token_store, A1).access_token = <<"T", "2">>

\* C12: after a completed OAuth exchange, direct connect, successful renewal or
\* disconnect the durable copy equals the in-memory store.
C12_DurableCopyEqualsMemory ==
    (\/ resp.op \in {"exchange", "connect_token"} /\ resp.status = 200
     \/ resp.op = "disconnect" /\ resp.disconnected
     \/ resp.op = "refresh" /\ resp.had_connection /\ resp.answer = "ok" /\ resp.disk_ok)
        => token_file = token_store

\* the create calls among the platform calls of a publish
CreateCalls(calls) == {k \in 1..Len(calls) : calls[k].call = "create"}

\* the platform failed a step of the publish made under the stored credential
PrimaryFailed(r) == r.env.create # "ok" \/ r.env.poll # "FINISHED" \/ r.env.commit # "ok"

\* C13: when create, poll or commit fails under the stored credential and the
\* environment holds a different credential, publish makes the sequence again under
\* that credential.
C13_FallbackRetried ==
    (/\ resp.op = "publish_now" /\ resp.had_connection
     /\ PrimaryFailed(resp)
     /\ ENV_ACCESS_TOKEN # NoToken
     /\ resp.calls # <<>>
     /\ resp.calls[1].access_token # ENV_ACCESS_TOKEN)
        => \E k \in CreateCalls(resp.calls) : resp.calls[k].access_token = ENV_ACCESS_TOKEN

\* C14: a rate-limit answer to the create call of a publish, or to the refresh request
\* of a renewal, is followed by another attempt before the error surfaces.
C14_RateLimitRetried ==
    /\ (resp.op = "publish_now" /\ resp.had_connection /\ resp.env.create = "429")
           => Cardinality(CreateCalls(resp.calls)) > 1
    /\ (resp.op = "refresh" /\ resp.had_connection /\ resp.answer = "rate_limited")
           => resp.calls > 1

\* C15: a renewal whose refresh request fails, is answered an error status, or is
\* answered without a token leaves the store and the durable copy as they were, emits
\* exactly one failure notification and raises nothing.
C15_FailedRenewalKeepsConnection ==
    (resp.op = "refresh" /\ resp.had_connection /\ resp.answer # "ok")
        => /\ token_store = resp.store_before
           /\ token_file = resp.file_before
           /\ resp.notifications = <<"failure">>
           /\ resp.flushes = 0
           /\ ~resp.raised

\* a renewal answered without a token, of a persona whose token was renewed before
C15_Witness ==
    /\ resp.op = "refresh"
    /\ resp.had_connection
    /\ resp.answer = "no_token"
    /\ Info(token_store, resp.persona_id).access_token = REFRESHED_TOKEN
    /\ resp.notifications = <<"failure">>

\* C16: a successful renewal puts the refreshed token and the refresh time into the
\* persona's Connection, keeps its account id, handle and connected_at and every other
\* Connection, writes the store to the durable copy once, and emits exactly one
\* success notification.
C16_RenewalReplacesToken ==
    (resp.op = "refresh" /\ resp.had_connection /\ resp.answer = "ok")
        => LET p == resp.persona_id
               old == Info(resp.store_before, p)
               new == Info(token_store, p)
           IN  /\ new.access_token = REFRESHED_TOKEN
               /\ new.refreshed_at = resp.at
               /\ new.ig_account_id = old.ig_account_id
               /\ new.ig_username = old.ig_username
               /\ new.connected_at = old.connected_at
               /\ Keys(token_store) = Keys(resp.store_before)
               /\ \A q \in Keys(token_store) \ {p} :
                      Info(token_store, q) = Info(resp.store_before, q)
               /\ resp.flushes = 1
               /\ token_file = IF resp.disk_ok THEN token_store ELSE resp.file_before
               /\ resp.notifications = <<"success">>
               /\ ~resp.raised

\* a renewal, later than the connect, replaced the token and reached the durable copy
C16_Witness ==
    /\ resp.op = "refresh"
    /\ resp.had_connection
    /\ resp.answer = "ok"
    /\ Info(resp.store_before, resp.persona_id).access_token # REFRESHED_TOKEN
    /\ Info(token_store, resp.persona_id).refreshed_at
           > Info(token_store, resp.persona_id).connected_at
    /\ token_file = token_store

\* C17: the renewal of a persona without a Connection makes no platform call, emits no
\* notification, raises nothing and leaves the store and the durable copy as they were.
C17_RenewalOfAbsentIsNoop ==
    (resp.op = "refresh" /\ ~resp.had_connection)
        => /\ resp.calls = 0
           /\ resp.notifications = <<>>
           /\ resp.flushes = 0
           /\ ~resp.raised
           /\ token_store = resp.store_before
           /\ token_file = resp.file_before

\* the refresh job of a disconnected persona ran while another persona was connected
C17_Witness ==
    /\ resp.op = "refresh"
    /\ ~resp.had_connection
    /\ token_store # <<>>
    /\ resp.notifications = <<>>

\* the refresh jobs a persona has
TimersOf(p) == {i \in 1..Len(refresh_jobs) : refresh_jobs[i] = p}

\* C18: no persona ever has two refresh jobs, and when a startup, a successful exchange
\* or a successful direct connect completes every persona of the store has exactly one.
C18_OneTimerPerPersona ==
    /\ \A i, j \in 1..Len(refresh_jobs) : refresh_jobs[i] = refresh_jobs[j] => i = j
    /\ (\/ resp.op = "start"
        \/ resp.op \in {"exchange", "connect_token"} /\ resp.status = 200)
           => \A p \in Keys(token_store) : Cardinality(TimersOf(p)) = 1

\* a startup found two personas in the durable copy, each with its refresh job
C18_Witness ==
    /\ resp.op = "start"
    /\ up
    /\ Cardinality(Keys(token_store)) = 2
    /\ \A p \in Keys(token_store) : Cardinality(TimersOf(p)) = 1

\* C19: disconnect answers true exactly when the persona had a Connection, the persona
\* has none afterwards and its status is not connected, and a disconnect that follows a
\* disconnect of the same persona answers false and changes neither the store nor the
\* durable copy.
C19_DisconnectIdempotent ==
    [][resp'.op = "disconnect"
           => /\ resp'.disconnected = resp'.had_connection
              /\ ~HasKey(token_store', resp'.persona_id)
              /\ (/\ resp.op = "disconnect"
                  /\ resp.persona_id = resp'.persona_id
                  /\ resp' # resp)
                     => /\ ~resp'.disconnected
                        /\ token_store' = token_store
                        /\ token_file' = token_file
                        /\ refresh_jobs' = refresh_jobs]_vars

\* a disconnect of a persona already disconnected, whose Connection is still in the
\* durable copy
C19_Witness ==
    /\ resp.op = "disconnect"
    /\ ~resp.disconnected
    /\ ~resp.had_connection
    /\ HasKey(token_file, resp.persona_id)
    /\ ~get_connection_status(resp.persona_id).connected

\* the Connection of a persona, if any
Conn(store, q) == IF HasKey(store, q) THEN <<Info(store, q)>> ELSE <<>>

CredOps == {"exchange", "connect_token", "refresh", "disconnect"}

\* a change of the Connection of q happens only in a restart or in a credential
\* operation that a(r) says is addressed to q
ChangesOnlyAddressed(a(_)) ==
    \A q \in {P1, A1} :
        Conn(token_store', q) # Conn(token_store, q)
            => \/ resp'.op \in {"down", "start"}
               \/ resp'.op \in CredOps /\ a(resp') = q

AddressedAsRequested(r) == IF r.op = "connect_token" THEN r.req_persona_id ELSE r.persona_id

AddressedAsResolved(r) ==
    IF r.op = "connect_token" /\ r.status # 200 THEN NoId ELSE r.persona_id

\* C20 as stated: an exchange with state p, a direct connect with persona_id p, a
\* renewal of p or a disconnect of p changes the Connection of no other persona_id.
C20_OthersUntouched == [][ChangesOnlyAddressed(AddressedAsRequested)]_vars

\* C20 amended: an exchange with state p, a direct connect whose account id resolves
\* to p, a renewal of p or a disconnect of p changes the Connection of no other
\* persona_id.
C20_OthersUntouchedByResolvedKey == [][ChangesOnlyAddressed(AddressedAsResolved)]_vars

\* an exchange for one persona completed while the other holds the Connection of its
\* second direct connect
C20_Witness ==
    /\ resp.op = "exchange"
    /\ resp.status = 200
    /\ HasKey(token_store, A1)
    /\ Info(token_store, A1).access_token = <<"T", "2">>
    /\ Info(token_store, P1).access_token = LONG_TOKEN

-----------------------------------------------------------------------------
(* C21..C23: the publish pipeline, under SpecPublish *)

\* the checks, among the first `bound` ones, that report a status of `decisive`
DecidingChecks(env, bound, decisive) == {k \in 1..bound : PollStatus(env, k) \in decisive}

First(S) == CHOOSE k \in S : \A j \in S : k <= j

\* the wait made `bound` checks at most, stopped at the first deciding check with the
\* outcome that check calls for, and raised not-ready after `bound` checks without one
WaitOutcome(r, decisive) ==
    LET bound == r.max_wait \div 3
        D == DecidingChecks(r.env, bound, decisive)
    IN  /\ r.polls <= bound
        /\ IF D = {}
           THEN r.exc = "NotReady" /\ r.polls = bound
           ELSE /\ r.polls = First(D)
                /\ r.exc = CASE PollStatus(r.env, First(D)) = "FINISHED" -> "none"
                             [] PollStatus(r.env, First(D)) = "ERROR" -> "ContainerError"
                             [] OTHER -> "HTTPError"

\* C21 as stated: wait_for_container(max_wait) makes at most floor(max_wait/3) status
\* checks, returns at the first check reporting FINISHED, raises a container error at
\* the first check reporting ERROR, and raises not-ready when no check within the
\* bound reported either.
C21_WaitEndsReadyErrorOrNotReady ==
    resp.op = "wait" => WaitOutcome(resp, {"FINISHED", "ERROR"})

\* C21 amended: wait_for_container(max_wait) makes at most floor(max_wait/3) status
\* checks; it stops at the first check that reports FINISHED (returning), reports
\* ERROR (container error) or whose status request fails (that request's error), and
\* raises not-ready after exactly floor(max_wait/3) checks when none of them did.
C21_WaitEndsAtFirstDecidingCheck ==
    resp.op = "wait" => WaitOutcome(resp, {"FINISHED", "ERROR", "HTTP_ERROR"})

\* a container that would have been ready at the fourth check, waited for with a bound
\* of three checks
C21_Witness ==
    /\ resp.op = "wait"
    /\ resp.max_wait = 11
    /\ resp.env.poll = "FINISHED"
    /\ resp.env.poll_at = 4
    /\ resp.polls = 3
    /\ resp.exc = "NotReady"

CallKinds(calls) == [i \in 1..Len(calls) |-> calls[i].call]

CallsOfKind(calls, kind) == {i \in 1..Len(calls) : calls[i].call = kind}

\* C22: within one publish the platform calls are one create, then status polls, then
\* at most one commit; the commit follows a poll that reported FINISHED; a step that
\* fails is the last call made; a media id is returned exactly when create, poll
\* and commit all succeeded.
C22_CreatePollCommitInOrder ==
    resp.op = "publish_now" /\ resp.had_connection =>
        LET calls == resp.calls
            n == Len(calls)
            creates == CallsOfKind(calls, "create")
            polls == CallsOfKind(calls, "poll")
            commits == CallsOfKind(calls, "publish")
            ready == polls # {} /\ PollStatus(resp.env, Cardinality(polls)) = "FINISHED"
        IN  /\ creates = IF n = 0 THEN {} ELSE {1}
            /\ \A i \in polls, j \in commits : i < j
            /\ Cardinality(commits) <= 1
            /\ \A j \in commits : j = n /\ calls[j - 1].call = "poll" /\ ready
            /\ \A i \in polls : i < Cardinality(polls) + 1
                   => PollStatus(resp.env, i - 1) \notin {"FINISHED", "ERROR", "HTTP_ERROR"}
            /\ resp.env.create # "ok" => polls = {} /\ commits = {} /\ resp.media_id = ""
            /\ ~ready => commits = {} /\ resp.media_id = ""
            /\ resp.env.commit # "ok" => resp.media_id = ""
            /\ resp.media_id # "" <=> resp.status = 200
            /\ resp.status = 200 =>
                   creates = {1} /\ ready /\ commits = {n} /\ resp.env.create = "ok"
                       /\ resp.env.commit = "ok"

\* a publish that succeeded at the second status check
C22_Witness ==
    /\ resp.op = "publish_now"
    /\ resp.status = 200
    /\ resp.media_id = "media_1"
    /\ CallKinds(resp.calls) = <<"create", "poll", "poll", "publish">>

\* the image of the request is WebP by the content type its host reports or by its extension
DetectedWebp(r) == r.env.head = "image/webp" \/ EndsWith(r.image_url, <<".webp">>)

\* C23: for an image detected as WebP, either the URL handed to container-create is the
\* public URL of the converted image, or publish fails with an unsupported-format
\* error before any platform call; the original URL and a data: URL are never submitted.
C23_WebpConvertedOrRejected ==
    resp.op = "publish_now" /\ resp.had_connection /\ DetectedWebp(resp) =>
        \/ resp.calls = <<>> /\ resp.exc = "UnsupportedFormat" /\ resp.status = 500
        \/ /\ resp.calls # <<>>
           /\ \A i \in CallsOfKind(resp.calls, "create") :
                  resp.calls[i].image_url \notin {resp.image_url, DataUrl}

-----------------------------------------------------------------------------
(* C24, C25: the life of a job after its timer, under SpecSched *)

\* the jobs some log entry is about
Logged(log) == {l.job : l \in log}

\* C24: a job is handed to the publish pipeline at most once: the submission takes it
\* out of the store; a job that has fired never returns to the store, whatever its
\* publish did, so it is never submitted again, is in no persona's list, and a cancel
\* of it answers false; each run of the pipeline is the only one of its job.
C24_FiresAtMostOnce ==
    [][/\ \A e \in executing' \ executing :
              e.job \in DOMAIN jobs /\ e.job \notin DOMAIN jobs' /\ e.job \notin fired
       /\ \A n \in fired' :
              /\ n \notin DOMAIN jobs'
              /\ \A p \in {P1, A1} : UuidJob(n) \notin get_scheduled_posts(jobs', refresh_jobs', p)
       /\ fired \subseteq fired'
       /\ publish_log' # publish_log =>
              /\ jobs' = jobs
              /\ \E e \in executing \ executing' :
                     Logged(publish_log' \ publish_log) = {e.job} /\ e.job \notin Logged(publish_log)
       /\ Logged(publish_log') \subseteq fired'
       /\ (resp'.op = "cancel" /\ resp' # resp /\ resp'.job_id.n \in fired) => ~resp'.cancelled
      ]_vars

\* the publish of a fired job failed, the job is gone, and a cancel of it was refused
C24_Witness ==
    /\ resp.op = "cancel"
    /\ ~resp.cancelled
    /\ \E l \in publish_log :
           /\ l.exc # "none"
           /\ l.job = resp.job_id.n
           /\ l.job \in fired
           /\ l.job \notin DOMAIN jobs

\* C25: a stop and a start of the process leave every job in the store, and nothing
\* leaves the store while the process is down; a job the scheduler takes up at most
\* 300 seconds after its run time (so also one that came due while the process was
\* down) is submitted to the publish pipeline, and one taken up later than that is
\* discarded without ever being submitted or published.
C25_SurvivesRestartWithinGrace ==
    [][/\ (resp'.op \in {"down", "start"} /\ resp' # resp) => jobs' = jobs
       /\ ~up => jobs' = jobs /\ executing' = executing
       /\ \A n \in DOMAIN jobs \ DOMAIN jobs' :
              \/ n \in cancelled'
              \/ IF now - jobs[n].run_date <= 300
                 THEN /\ n \in fired' \ missed'
                      /\ [job |-> n, args |-> jobs[n]] \in executing'
                 ELSE /\ n \in missed' \ fired'
                      /\ executing' = executing
       /\ missed' \cap (fired' \cup Logged(publish_log') \cup {e.job : e \in executing'}) = {}
      ]_vars

\* after a restart one job, 1 to 300 seconds late, has been submitted and another,
\* later than that, has been discarded
C25_Witness ==
    /\ resp.op = "start"
    /\ missed # {}
    /\ \E e \in executing : now - e.args.run_date \in 1..300

-----------------------------------------------------------------------------
(* C26..C30: the interaction routes, under SpecInteract *)

\* the send request last answered found the draft pending and made a platform call
\* that failed
DispatchFailed(r) == r.op = "send" /\ r.before = "pending" /\ r.status # 400 /\ ~r.platform_ok

\* C26: a send whose platform call fails is answered 502 and leaves the draft pending;
\* a later send of that draft which the platform accepts, or a later dismiss, succeeds.
C26_FailedSendStaysPending ==
    [][/\ DispatchFailed(resp') =>
              /\ resp'.status = 502
              /\ pending_replies'[resp'.reply_id].status = "pending"
              /\ \E c \in reply_calls' : c.reply_id = resp'.reply_id /\ ~c.ok
       /\ (DispatchFailed(resp) /\ resp'.op = "send" /\ resp'.reply_id = resp.reply_id
               /\ resp'.status # 400 /\ resp'.platform_ok) =>
              resp'.status = 200 /\ pending_replies'[resp.reply_id].status = "sent"
       /\ (DispatchFailed(resp) /\ resp'.op = "dismiss" /\ resp'.reply_id = resp.reply_id) =>
              resp'.status = 200 /\ pending_replies'[resp.reply_id].status = "dismissed"
      ]_vars

\* a draft sent at the second attempt, the first having failed at the platform
C26_Witness ==
    /\ resp.op = "send"
    /\ resp.status = 200
    /\ resp.before = "pending"
    /\ pending_replies[resp.reply_id].status = "sent"
    /\ \E c \in CallsFor(resp.reply_id) : ~c.ok

\* C27: a delivery with a malformed change is still answered 200, and every comment
\* change with a text in it, before or after the malformed one, gets its draft.
C27_MalformedEntryIsolated ==
    resp.op = "webhook" /\ resp.status # 400 =>
        /\ resp.status = 200
        /\ Len(resp.handled) = resp.comments
        /\ Len(pending_replies) = resp.drafts_before + resp.comments

CannedTexts == {"canned_no_key", "canned_api_error"}

\* C28: every comment change with a text that the handler takes up adds exactly one
\* draft, in payload order, under the persona resolved for it or the fallback persona;
\* the draft text is the generated reply, or a canned acknowledgement when the
\* generation failed.
C28_OneDraftPerComment ==
    resp.op = "webhook" /\ resp.status # 400 =>
        /\ Len(resp.handled) = resp.reached
        /\ Len(pending_replies) = resp.drafts_before + resp.reached
        /\ \A k \in 1..Len(resp.handled) :
               LET c == resp.handled[k]
                   d == pending_replies[c.reply_id]
               IN  /\ c.reply_id = resp.drafts_before + k
                   /\ d.persona_id = c.persona_id
                   /\ d.status \in {"pending", "sent"}
                   /\ IF c.llm = "ok"
                      THEN d.draft_text = "generated"
                      ELSE d.draft_text \in CannedTexts

\* a comment of an account no persona owns, its reply generation failing, got a draft
\* with the canned text under the fallback persona
C28_Witness ==
    /\ resp.op = "webhook"
    /\ resp.status = 200
    /\ \E k \in 1..Len(resp.handled) :
           /\ resp.handled[k].llm = "no_key"
           /\ resp.handled[k].persona_id = DEMO
           /\ pending_replies[resp.handled[k].reply_id].draft_text = "canned_no_key"

\* the personas whose stored Connection has the account id
Owners(store, ig_account_id) ==
    {p \in Keys(store) : Info(store, p).ig_account_id = ig_account_id}

\* C29: the persona a comment is handled under is one whose stored Connection has the
\* account id of the event when there is such a Connection, and the fallback persona
\* "demo" when there is none; the event gets its draft under that persona either way.
C29_ResolvedByAccountId ==
    resp.op = "webhook" =>
        /\ Len(resp.handled) = resp.comments
        /\ \A k \in 1..Len(resp.handled) :
               LET c == resp.handled[k]
               IN  /\ IF Owners(token_store, c.from_id) = {}
                      THEN c.persona_id = DEMO
                      ELSE c.persona_id \in Owners(token_store, c.from_id)
                   /\ pending_replies[c.reply_id].persona_id = c.persona_id

\* an event was resolved to a persona whose key is not the account id
C29_Witness ==
    /\ resp.op = "webhook"
    /\ \E k \in 1..Len(resp.handled) :
           /\ resp.handled[k].from_id = A1
           /\ resp.handled[k].persona_id = P1
           /\ Info(token_store, P1).ig_account_id = A1

SettingsPersonas == {A1, P1, DEMO}

\* C30: after every step each persona's mode is draft or auto, and draft for a persona
\* no set has stored a mode for; a get answers the stored mode; a set of another value
\* is answered 400 and changes nothing; a set of draft or auto is answered 200 and
\* stores the value; and no other step changes any persona's mode.
C30_ModeDraftOrAuto ==
    [][/\ \A p \in SettingsPersonas :
              /\ get_auto_reply_setting(auto_reply_settings', p) \in {"draft", "auto"}
              /\ p \notin DOMAIN auto_reply_settings'
                     => get_auto_reply_setting(auto_reply_settings', p) = "draft"
              /\ p \in DOMAIN auto_reply_settings' \ DOMAIN auto_reply_settings
                     => resp'.op = "update_settings" /\ resp'.persona_id = p
       /\ resp'.op = "get_settings" =>
              /\ resp'.mode = get_auto_reply_setting(auto_reply_settings, resp'.persona_id)
              /\ auto_reply_settings' = auto_reply_settings
       /\ resp'.op = "update_settings" =>
              IF resp'.mode \in {"draft", "auto"}
              THEN /\ resp'.status = 200
                   /\ get_auto_reply_setting(auto_reply_settings', resp'.persona_id) = resp'.mode
              ELSE /\ resp'.status = 400
                   /\ auto_reply_settings' = auto_reply_settings
       /\ \A p \in SettingsPersonas :
              get_auto_reply_setting(auto_reply_settings', p)
                      # get_auto_reply_setting(auto_reply_settings, p)
                  => /\ resp'.op = "update_settings"
                     /\ resp'.persona_id = p
                     /\ resp'.status = 200
      ]_vars

\* a set of an invalid value was refused for a persona whose mode had been set to auto
C30_Witness ==
    /\ resp.op = "update_settings"
    /\ resp.status = 400
    /\ resp.mode = "always"
    /\ get_auto_reply_setting(auto_reply_settings, resp.persona_id) = "auto"

-----------------------------------------------------------------------------
(* C31, C32: the OAuth exchange, under SpecCred, and the account resolution, under SpecAccount *)

\* C31: an exchange whose two token requests and account resolution succeed is answered
\* 200, stores under the persona_id given as state a Connection holding the long-lived
\* token and the resolved account id and handle, and leaves that persona with a refresh
\* job; an exchange that fails at any of the three steps is answered 400 and leaves the
\* store, its durable copy and the refresh jobs as they were.
C31_ExchangeStoresOrLeaves ==
    [][resp'.op = "exchange" =>
           LET got == get_instagram_account_id(LONG_TOKEN, resp'.net)
               p == resp'.persona_id
           IN  IF resp'.oauth = "ok" /\ got.id # NoId
               THEN /\ resp'.status = 200
                    /\ HasKey(token_store', p)
                    /\ Info(token_store', p).access_token = LONG_TOKEN
                    /\ Info(token_store', p).ig_account_id = got.id
                    /\ Info(token_store', p).ig_username = got.username
                    /\ Info(token_store', p) = resp'.info
                    /\ p \in TimerIds(refresh_jobs')
               ELSE /\ resp'.status = 400
                    /\ token_store' = token_store
                    /\ token_file' = token_file
                    /\ refresh_jobs' = refresh_jobs
      ]_vars

\* an exchange failed at the account resolution for a persona that holds the
\* Connection of an earlier exchange
C31_Witness ==
    /\ resp.op = "exchange"
    /\ resp.status = 400
    /\ resp.oauth = "ok"
    /\ resp.net.ig_me = NoId
    /\ HasKey(token_store, resp.persona_id)
    /\ Info(token_store, resp.persona_id).access_token = LONG_TOKEN

\* the answers of the platform lookups a token is entitled to, in the order they are made
StrategyAnswers(access_token, net) ==
    (IF StartsWith(access_token, <<"IGAA">>) THEN <<net.ig_me>> ELSE <<>>)
        \o <<net.fb_pages, net.fb_me>>

StrategyNames(access_token) ==
    (IF StartsWith(access_token, <<"IGAA">>) THEN <<"ig_me">> ELSE <<>>)
        \o <<"fb_pages", "fb_me">>

\* C32: the lookups are made in the order Instagram /me (IGAA tokens only), Facebook
\* pages, Facebook /me, and the first account found is returned with no later lookup
\* made; the identifier of the environment is returned only when every lookup, at least
\* two, found none; the call raises only when, besides, no identifier is configured.
C32_FirstStrategyThenEnv ==
    resp.op = "resolve" =>
        LET answers == StrategyAnswers(resp.access_token, resp.net)
            names == StrategyNames(resp.access_token)
            found == {i \in 1..Len(answers) : answers[i] # NoId}
            lookups == SelectSeq(resp.tried, LAMBDA x : x # "env")
        IN  IF found # {}
            THEN /\ resp.id = answers[First(found)]
                 /\ ~resp.raised
                 /\ resp.tried = SubSeq(names, 1, First(found))
            ELSE /\ lookups = names
                 /\ Len(lookups) >= 2
                 /\ resp.id = resp.net.env_user_id
                 /\ resp.raised <=> resp.net.env_user_id = NoId

\* the identifier of the environment was returned to an IGAA token after three lookups
\* that found nothing
C32_Witness ==
    /\ resp.op = "resolve"
    /\ resp.id = <<"E", "1">>
    /\ resp.tried = <<"ig_me", "fb_pages", "fb_me", "env">>
    /\ StartsWith(resp.access_token, <<"IGAA">>)

-----------------------------------------------------------------------------
(* C33, C34: the hub verification and the risk classifier, under SpecStateless *)

\* C33: the hub verification answers 200 with the challenge as its body exactly when
\* hub.mode is subscribe and hub.verify_token is the verify token; every other request
\* is answered 403 with a body that is not the challenge.
C33_ChallengeOnlyOnExactToken ==
    resp.op = "verify" =>
        IF resp.hub_mode = <<"subscribe">> /\ resp.hub_verify_token = WEBHOOK_VERIFY_TOKEN
        THEN /\ resp.status = 200
             /\ resp.body = IF resp.hub_challenge = Missing THEN <<>> ELSE resp.hub_challenge
        ELSE /\ resp.status = 403
             /\ resp.body # resp.hub_challenge

\* a subscribe request whose token only begins with the verify token was refused
C33_Witness ==
    /\ resp.op = "verify"
    /\ resp.hub_mode = <<"subscribe">>
    /\ resp.hub_verify_token = WEBHOOK_VERIFY_TOKEN \o <<"x">>
    /\ resp.hub_challenge = <<"c", "1">>
    /\ resp.status = 403

DenyTerms == {NEGATIVE_KEYWORDS[k] : k \in 1..Len(NEGATIVE_KEYWORDS)}

\* some denylisted term is text[i+1..j] for some 0 <= i <= j <= Len(text)
HasDenyTerm(text) ==
    \E i \in 0..Len(text), j \in 0..Len(text) :
        i <= j /\ SubSeq(text, i + 1, j) \in DenyTerms

\* C34: in every state of the stores the classifier answers low or high for every
\* text, high exactly when the text contains a denylisted term as a substring: the
\* answer is a function of the text alone.
C34_RiskIsFunctionOfText ==
    resp.op = "classify" =>
        /\ resp.risk \in {"low", "high"}
        /\ resp.risk = "high" <=> HasDenyTerm(resp.text)

\* a text with a denylisted term in its middle was classified high while a Connection
\* was stored
C34_Witness ==
    /\ resp.op = "classify"
    /\ resp.text = <<"ni", "tui", "kuan">>
    /\ resp.risk = "high"
    /\ HasKey(token_store, A1)

-----------------------------------------------------------------------------
(* C35: a rejected schedule request, under SpecSched *)

\* C35: a schedule request answered 400 has created no job: the jobs in the store, and
\* with them the list of every persona, are those of before the request.
C35_RejectedBatchSchedulesNothing ==
    [][(resp'.op = "schedule" /\ resp'.status = 400 /\ resp' # resp) =>
           /\ jobs' = jobs
           /\ next_job' = next_job
           /\ \A p \in {P1, A1} :
                  get_scheduled_posts(jobs', refresh_jobs', p)
                      = get_scheduled_posts(jobs, refresh_jobs, p)
      ]_vars

(* C36, C37: dispatch of a draft, under SpecInteract and SpecOverlap *)

\* the send request r named a persona that is not the owner of the draft it named
NamesOtherPersona(r) ==
    /\ r.op = "send"
    /\ r.reply_id \in 1..Len(pending_replies)
    /\ pending_replies[r.reply_id].persona_id # r.persona_id

\* C36: a send request that names a persona other than the owner of the draft makes no
\* platform call for the draft and does not mark it sent.
C36_SentOnlyWithOwnersToken ==
    [][(resp' # resp /\ NamesOtherPersona(resp')) =>
           /\ reply_calls' = reply_calls
           /\ pending_replies'[resp'.reply_id].status = pending_replies[resp'.reply_id].status
      ]_vars

\* the step ran the handler of a waiting send request
SendRan == Len(send_queue') < Len(send_queue)

\* C37: whatever send requests overlap and in whatever order the event loop runs them,
\* next to the automatic dispatch of the webhook, a platform call that succeeds for a
\* draft is made only while the draft is pending (or as it is created) and leaves it
\* sent, and a send run for a draft that is already sent is refused without a call.
C37_OneSuccessfulPostPerDraft ==
    [][/\ \A c \in reply_calls' \ reply_calls : c.ok =>
              /\ c.reply_id \in 1..Len(pending_replies) =>
                     pending_replies[c.reply_id].status = "pending"
              /\ pending_replies'[c.reply_id].status = "sent"
       /\ (SendRan /\ resp'.before = "sent") =>
              /\ resp'.status \in {400, 404}
              /\ reply_calls' = reply_calls
              /\ pending_replies' = pending_replies
      ]_vars

\* a send was refused because the draft had been sent by a request that overlapped it,
\* while a third request for the same draft is still waiting
C37_Witness ==
    /\ resp.op = "send"
    /\ resp.status = 404
    /\ resp.before = "sent"
    /\ \E i \in 1..Len(send_queue) : send_queue[i].reply_id = resp.reply_id
    /\ \E c \in reply_calls : c.reply_id = resp.reply_id /\ c.ok

(* C38: a renewal on the scheduler's thread against a disconnect, under SpecRace *)

\* the last request handled was a disconnect of persona p that returned true, so that
\* no connect has happened since
DisconnectedLast(p) ==
    /\ resp.op = "disconnect"
    /\ resp.persona_id = p
    /\ resp.disconnected

\* C38: once disconnect(p) has returned true, no statement of a renewal of p that was
\* already running puts a Connection of p back, neither into the store in memory nor
\* into the durable copy.
C38_RenewalDoesNotReconnect ==
    [][(renewing.pc # "idle" /\ renewing' # renewing
            /\ DisconnectedLast(renewing.persona_id)) =>
           /\ ~HasKey(token_store', renewing.persona_id)
           /\ HasKey(token_file', renewing.persona_id) => token_file' = token_file
      ]_vars


(* C39: a job run under the credential of the moment, under SpecFire *)

\* C39: a job that runs publishes with the Connection its persona has when it runs:
\* without one it makes no platform call and fails as not connected, with one every
\* call of the publish carries the token stored at that moment; the job is gone from
\* the store either way.
C39_PublishesWithConnectionAtRun ==
    [][\A e \in executing \ executing' :
           /\ e.job \notin DOMAIN jobs'
           /\ \E r \in publish_log' \ publish_log :
                  /\ r.job = e.job
                  /\ IF ~HasKey(token_store, e.args.persona_id)
                     THEN r.calls = <<>> /\ r.exc = "NotConnected"
                     ELSE /\ r.calls # <<>>
                          /\ \A k \in 1..Len(r.calls) :
                                 r.calls[k].access_token =
                                     Info(token_store, e.args.persona_id).access_token
      ]_vars

\* the only job was scheduled under the token of the connect, the last request was the
\* renewal of that token, and the job has published with the renewed token
C39_Witness ==
    /\ resp.op = "refresh"
    /\ HasKey(resp.store_before, A1)
    /\ Info(resp.store_before, A1).access_token = <<"T">>
    /\ next_job = 1
    /\ \E r \in publish_log :
           /\ r.job = 1
           /\ r.exc = "none"
           /\ \A k \in 1..Len(r.calls) : r.calls[k].access_token = REFRESHED_TOKEN


(* C40: the list of a persona, under SpecList *)

\* C40: the list answered for a persona holds exactly the publish jobs still in the
\* store that were scheduled for that persona, and no renewal timer.
C40_ListIsPersonaScoped ==
    resp.op = "list" =>
        resp.scheduled_posts = {UuidJob(n) : n \in {m \in DOMAIN jobs : jobs[m].persona_id = resp.persona_id}}

====
